---- MODULE Spec2Model ----
(***************************************************************************)
(* Technical-indicator engine of services/agent0-service/data_providers.py *)
(* (compute_technicals, its embedded trend classifier, format_technicals). *)
(*                                                                         *)
(* Number representation.  Python floats are modelled as exact numbers:    *)
(*   - a close is an integer number of cents (Bar.close = cents / 100);    *)
(*   - a published field is the integer the code's round(x, k) yields, in  *)
(*     units of 10^-k: rsi_14, sma_20, sma_50, bb_upper, bb_lower and      *)
(*     volume_ratio in hundredths, macd* in 1e-4, bb_pct in thousandths;   *)
(*   - round() is round-half-to-even, as Python's round;                   *)
(*   - the EMA recurrences, whose exact values have unbounded              *)
(*     denominators, are carried in fixed point at 1e-7 currency units,    *)
(*     each step rounded to nearest;                                       *)
(*   - an optional value is <<>> (None / NaN) or <<v>>.                    *)
(***************************************************************************)
EXTENDS Integers, Sequences, FiniteSets, TLC

\* ------------------------------------------------------------------------
\* Bounds of the model
\* ------------------------------------------------------------------------

\* longest bar series fed to the engine (covers the 14/20/26/50 thresholds)
MaxBars == 51

\* largest last-bar move, in ticks, added on top of the pattern
MaxShock == 2

\* ------------------------------------------------------------------------
\* State
\* ------------------------------------------------------------------------

\* the Technicals snapshot last returned by compute_technicals
VARIABLE tech

\* ------------------------------------------------------------------------
\* Arithmetic helpers
\* ------------------------------------------------------------------------

None == <<>>

Some(v) == <<v>>

IsNone(x) == x = <<>>

Val(x) == x[1]

Abs(x) == IF x < 0 THEN -x ELSE x

Max(a, b) == IF a >= b THEN a ELSE b

\* The one element of a singleton set.  Value({Body(v) : v \in {e}}) is
\* "LET v == e IN Body(v)" with e evaluated exactly once.
Value(S) == CHOOSE x \in S : TRUE

\* round(num / den) to the nearest integer, ties to even; den > 0
RoundHalfEven(num, den) ==
    Value({ IF 2 * t[2] < t[3] THEN t[1]
            ELSE IF 2 * t[2] > t[3] THEN t[1] + 1
            ELSE IF t[1] % 2 = 0 THEN t[1] ELSE t[1] + 1
          : t \in {<<num \div den, num % den, den>>} })

RECURSIVE SumRange(_, _, _)
\* s[lo] + ... + s[hi]
SumRange(s, lo, hi) ==
    IF lo > hi THEN 0
    ELSE IF lo = hi THEN s[lo]
    ELSE Value({ SumRange(s, t[1], t[2]) + SumRange(s, t[2] + 1, t[3])
               : t \in {<<lo, (lo + hi) \div 2, hi>>} })

RECURSIVE FracLeq(_, _, _, _)
\* a/b <= c/d for a, c >= 0 and b, d > 0, without forming a*d or b*c
FracLeq(a, b, c, d) ==
    Value({ IF t[1] # t[2] THEN t[1] < t[2]
            ELSE IF t[3] = 0 THEN TRUE
            ELSE IF t[4] = 0 THEN FALSE
            ELSE FracLeq(t[6], t[4], t[5], t[3])
          : t \in {<<a \div b, c \div d, a % b, c % d, b, d>>} })

RECURSIVE ISqrtIter(_, _, _)
\* the largest r in lo..hi with r * r <= x, given lo * lo <= x
ISqrtIter(x, lo, hi) ==
    IF lo >= hi THEN lo
    ELSE Value({ IF t[2] * t[2] <= x THEN ISqrtIter(x, t[2], t[3])
                 ELSE ISqrtIter(x, t[1], t[2] - 1)
               : t \in {<<lo, (lo + hi + 1) \div 2, hi>>} })

\* floor of the square root of x >= 0
ISqrt(x) == ISqrtIter(x, 0, IF x < 46340 THEN x ELSE 46340)

\* ------------------------------------------------------------------------
\* Data classes
\* ------------------------------------------------------------------------

\* @dataclass Bar; close in cents, volume in units
Bar(time, open, high, low, close, volume) ==
    [time |-> time, open |-> open, high |-> high, low |-> low,
     close |-> close, volume |-> volume]

\* one instance reused by every call
TechnicalsShared(bars_used) == [tech EXCEPT !.bars_used = bars_used]

\* @dataclass Technicals: every field defaults to None, bars_used is given
Technicals(bars_used) ==
    [rsi_14 |-> None, macd |-> None, macd_signal |-> None, macd_hist |-> None,
     sma_20 |-> None, sma_50 |-> None, bb_upper |-> None, bb_lower |-> None,
     bb_pct |-> None, volume_ratio |-> None, trend |-> "None",
     bars_used |-> bars_used]

\* tech = Technicals(bars_used=len(bars)): each call builds its own instance
NewTechnicals(bars_used) == Technicals(bars_used)

\* ------------------------------------------------------------------------
\* pandas building blocks, as compute_technicals uses them
\* ------------------------------------------------------------------------

\* closes.diff(): the first position is NaN
Diff(s) == [i \in 1..Len(s) |-> IF i = 1 THEN None ELSE Some(s[i] - s[i - 1])]

\* delta.where(delta > 0, 0.0): NaN > 0 is False, so the NaN becomes 0.0
GainTerms(delta) ==
    [i \in 1..Len(delta) |->
        IF ~IsNone(delta[i]) /\ Val(delta[i]) > 0 THEN Val(delta[i]) ELSE 0]

\* -delta.where(delta < 0, 0.0)
LossTerms(delta) ==
    [i \in 1..Len(delta) |->
        -(IF ~IsNone(delta[i]) /\ Val(delta[i]) < 0 THEN Val(delta[i]) ELSE 0)]

\* a window reaching one position too far back
RollingSumOffByOne(s, w) ==
    IF Len(s) < w THEN None ELSE Some(SumRange(s, Max(1, Len(s) - w), Len(s)))

\* s.rolling(w).sum().iloc[-1]: NaN while fewer than w positions exist.
\* s.rolling(w).mean().iloc[-1] is this sum over w.
RollingSum(s, w) ==
    IF Len(s) < w THEN None ELSE Some(SumRange(s, Len(s) - w + 1, Len(s)))

RECURSIVE EwmRange(_, _, _, _, _)
\* the recursive (adjust=False) EMA at positions lo..hi, prev the EMA at
\* lo - 1:  ema_i = alpha * x_i + (1 - alpha) * ema_(i-1), alpha = 2 / (span + 1)
\* (the range is halved so that the evaluation stays shallow)
EwmRange(x, lo, hi, prev, span) ==
    IF lo > hi THEN <<>>
    ELSE IF lo = hi
    THEN <<RoundHalfEven(2 * x[lo] + (span - 1) * prev, span + 1)>>
    ELSE Value({ Value({ left \o right
                       : right \in {EwmRange(x, t[2] + 1, t[3], left[Len(left)], span)} })
               : t \in {<<lo, (lo + hi) \div 2, hi>>},
                 left \in {EwmRange(x, lo, (lo + hi) \div 2, prev, span)} })

\* x.ewm(span=span, adjust=False).mean(), seeded with the first value
Ewm(x, span) ==
    IF Len(x) = 0 THEN <<>> ELSE <<x[1]>> \o EwmRange(x, 2, Len(x), x[1], span)

\* ------------------------------------------------------------------------
\* Floats that are not finite, and quotients
\* ------------------------------------------------------------------------

\* A quotient is <<num, den>> with den > 0; float("nan") is <<0, 0>> and
\* float("inf") is <<1, 0>>.
NaN == <<0, 0>>

Inf == <<1, 0>>

\* pd.notna(x)
NotNa(x) == x # NaN

\* a / b on float series: x / nan = nan, 0 / 0 = nan, x / 0 = inf (x > 0)
FloatDiv(a, b) ==
    IF IsNone(a) \/ IsNone(b) THEN NaN
    ELSE IF Val(b) = 0 THEN (IF Val(a) = 0 THEN NaN ELSE Inf)
    ELSE <<Val(a), Val(b)>>

\* round(float(q), k) for a finite quotient q >= 0 or < 0, in units of 10^-k
\* (scale = 10^k)
RoundQ(q, scale) == RoundHalfEven(q[1] * scale, q[2])

\* ------------------------------------------------------------------------
\* compute_technicals, section by section
\* ------------------------------------------------------------------------

\* if len(bars) < 14: return tech
InsufficientDataOffByOne(n) == n < 13

InsufficientData(n) == n < 14

\* the "if len(closes) >= w" gates of the indicator sections
HasHistoryOffByOne(n, w) == n > w

HasHistory(n, w) == n >= w

\* loss.replace(0, float("nan")): a zero mean loss becomes NaN
ReplaceZeroMissing(loss) == loss

ReplaceZero(loss) == IF ~IsNone(loss) /\ Val(loss) = 0 THEN None ELSE loss

\* 100 - (100 / (1 + rs)) for rs = gain / loss >= 0
RsiOfRsNoComplement(rs) ==
    IF rs = NaN THEN NaN
    ELSE IF rs = Inf THEN <<0, 1>>
    ELSE <<100 * rs[2], rs[1] + rs[2]>>

RsiOfRs(rs) ==
    IF rs = NaN THEN NaN
    ELSE IF rs = Inf THEN <<100, 1>>
    ELSE <<100 * rs[1], rs[1] + rs[2]>>

\* RSI-14: [gain, loss] are the last 14-period rolling sums of the gains and
\* losses in cents (the rolling means times 14), rsi_14 the published field.
Rsi14(closes) ==
    Value({ [gain |-> gain, loss |-> loss,
             rsi_14 |-> IF NotNa(rsi) THEN Some(RoundQ(rsi, 100)) ELSE None]
          : gain \in {RollingSum(GainTerms(Diff(closes)), 14)},
            loss \in {RollingSum(LossTerms(Diff(closes)), 14)},
            rsi  \in {RsiOfRs(FloatDiv(RollingSum(GainTerms(Diff(closes)), 14),
                        ReplaceZero(RollingSum(LossTerms(Diff(closes)), 14))))} })

\* signal line, histogram and the three published fields (rounded to 4
\* decimals, units of 1e-4) from the two EMAs of the closes
MacdOfEmas(ema12, ema26) ==
    LET n         == Len(ema12)
        macd_line == [i \in 1..n |-> ema12[i] - ema26[i]]
    IN  Value({ [macd        |-> Some(RoundHalfEven(macd_line[n], 1000)),
                 macd_signal |-> Some(RoundHalfEven(signal_line[n], 1000)),
                 macd_hist   |-> Some(RoundHalfEven(macd_line[n] - signal_line[n], 1000))]
              : signal_line \in {Ewm(macd_line, 9)} })

\* MACD (12, 26, 9).  The EMA recurrence is affine, so the EMA of the closes
\* is the first close plus the EMA of the offsets from it, and the first
\* close cancels in ema12 - ema26: the EMAs are carried on the offsets, in
\* 1e-7 currency units (cents * 100000).
Macd(closes) ==
    Value({ MacdOfEmas(ema12, ema26)
          : ema12 \in {Ewm([i \in 1..Len(closes) |-> (closes[i] - closes[1]) * 100000], 12)},
            ema26 \in {Ewm([i \in 1..Len(closes) |-> (closes[i] - closes[1]) * 100000], 26)} })

\* round(float(closes.rolling(w).mean().iloc[-1]), 2), in cents
Sma(closes, w) == Some(RoundHalfEven(Val(RollingSum(closes, w)), w))

\* if band_width > 0, on band_width^2 = 4 * nvar / 95 (cents^2)
BandWidthGuardNonNegative(nvar) == nvar >= 0

BandWidthGuard(nvar) == nvar > 0

RECURSIVE FloorRootIter(_, _, _, _)
\* the largest m in lo..hi with m^2 <= 59375 * d^2 / nvar (d, nvar > 0)
FloorRootIter(d, nvar, lo, hi) ==
    IF lo >= hi THEN lo
    ELSE Value({ IF FracLeq(t[2] * t[2], d, 59375 * d, nvar)
                 THEN FloorRootIter(d, nvar, t[2], t[3])
                 ELSE FloorRootIter(d, nvar, t[1], t[2] - 1)
               : t \in {<<lo, (lo + hi + 1) \div 2, hi>>} })

\* round(float((price - lower) / band_width), 3) in thousandths, where
\* (price - lower) / band_width = 1/2 + (price - sma) / (4 * std)
\*                              = 1/2 + sign(dev) * sqrt(59375 * dev^2 / nvar) / 1000
\* with dev = 20 * price - sum of the window, nvar = 380 * variance.
\* A zero band width divides by zero: 0/0 = nan, x/0 = inf.
BbPct(dev, nvar) ==
    IF nvar = 0 THEN (IF dev = 0 THEN NaN ELSE Inf)
    ELSE IF dev = 0 THEN Some(500)
    ELSE LET d    == Abs(dev)
             m    == FloorRootIter(d, nvar, 0, 2000)
             half == FracLeq((2 * m + 1) * (2 * m + 1), d, 237500 * d, nvar)
             tie  == half /\ FracLeq(237500 * d, nvar, (2 * m + 1) * (2 * m + 1), d)
             up   == IF tie THEN m % 2 = 1 ELSE half
         IN  IF dev > 0
             THEN Some(500 + (IF up THEN m + 1 ELSE m))
             ELSE Some(500 - (IF up THEN m + 1 ELSE m))

\* the rounded bands from total = sum of the window, nvar = 380 * variance and
\* s = floor(sqrt(80 * nvar / 19)): upper = (total + sqrt(80 nvar / 19)) / 20,
\* lower = (total - sqrt(80 nvar / 19)) / 20, each rounded to the cent
Bands(total, nvar, s) ==
    LET exact == 19 * s * s = 80 * nvar
        um    == total + s + 10
        u0    == um \div 20
        lm    == IF exact THEN total - s + 10 ELSE total - s - 1 + 10
        l0    == lm \div 20
    IN  [bb_upper |-> Some(IF exact /\ um % 20 = 0 /\ u0 % 2 = 1 THEN u0 - 1 ELSE u0),
         bb_lower |-> Some(IF exact /\ lm % 20 = 0 /\ l0 % 2 = 1 THEN l0 - 1 ELSE l0)]

\* Bollinger Bands (20, 2) over the trailing 20 closes w (cents), price the
\* last close.  With total = sum(w) and nvar = 20 * sum(d^2) - sum(d)^2 for
\* d = w - w[1]: sma = total / 20, std^2 = nvar / 380 (sample variance),
\* upper = sma + 2 std, lower = sma - 2 std, band_width = 4 std.
Bollinger(closes, price) ==
    LET n  == Len(closes)
        w  == [i \in 1..20 |-> closes[n - 20 + i]]
        d  == [i \in 1..20 |-> w[i] - w[1]]
        dd == [i \in 1..20 |-> d[i] * d[i]]
    IN  Value({ Value({ [bb_upper |-> b.bb_upper, bb_lower |-> b.bb_lower,
                         nvar |-> t[2], dev |-> 20 * price - t[1]]
                      : b \in {Bands(t[1], t[2], ISqrt((80 * t[2]) \div 19))} })
              : t \in {<<SumRange(w, 1, 20),
                         20 * SumRange(dd, 1, 20) - SumRange(d, 1, 20) * SumRange(d, 1, 20)>>} })

\* volumes.rolling(20).mean().iloc[-1] > 0
MeanVolumePositive(volumes) == Val(RollingSum(volumes, 20)) > 0

\* Volume ratio (current / 20-day avg), rounded to 2 decimals, in hundredths
VolumeRatio(volumes) ==
    Some(RoundHalfEven(volumes[Len(volumes)] * 2000, Val(RollingSum(volumes, 20))))

\* ------------------------------------------------------------------------
\* Trend classifier (the "overall trend heuristic" of compute_technicals)
\* ------------------------------------------------------------------------

Count(b) == IF b THEN 1 ELSE 0

\* if tech.rsi_14 > 55: bullish  elif tech.rsi_14 < 45: bearish
RsiVoteWide(rsi_14) ==
    IF IsNone(rsi_14) THEN "none"
    ELSE IF Val(rsi_14) >= 5500 THEN "bullish"
    ELSE IF Val(rsi_14) <= 4500 THEN "bearish"
    ELSE "none"

RsiVote(rsi_14) ==
    IF IsNone(rsi_14) THEN "none"
    ELSE IF Val(rsi_14) > 5500 THEN "bullish"
    ELSE IF Val(rsi_14) < 4500 THEN "bearish"
    ELSE "none"

\* if tech.macd_hist > 0: bullish  else: bearish
MacdVoteZeroBullish(macd_hist) ==
    IF IsNone(macd_hist) THEN "none"
    ELSE IF Val(macd_hist) >= 0 THEN "bullish"
    ELSE "bearish"

MacdVote(macd_hist) ==
    IF IsNone(macd_hist) THEN "none"
    ELSE IF Val(macd_hist) > 0 THEN "bullish"
    ELSE "bearish"

\* if sma is not None and price > sma: bullish  elif sma is not None: bearish
SmaVoteAtOrAbove(sma, price) ==
    IF IsNone(sma) THEN "none"
    ELSE IF price >= Val(sma) THEN "bullish"
    ELSE "bearish"

SmaVote(sma, price) ==
    IF IsNone(sma) THEN "none"
    ELSE IF price > Val(sma) THEN "bullish"
    ELSE "bearish"

\* the margin-of-two rule on the two counters
TrendSimpleMajority(bullish, bearish) ==
    IF bullish > bearish THEN "bullish"
    ELSE IF bearish > bullish THEN "bearish"
    ELSE "neutral"

TrendUnsetWithoutVotes(bullish, bearish) ==
    IF bullish > bearish + 1 THEN "bullish"
    ELSE IF bearish > bullish + 1 THEN "bearish"
    ELSE IF bullish + bearish = 0 THEN "None"
    ELSE "neutral"

TrendOnAnyVote(bullish, bearish) ==
    IF bullish > 0 /\ bearish = 0 THEN "bullish"
    ELSE IF bearish > 0 /\ bullish = 0 THEN "bearish"
    ELSE "neutral"

Trend(bullish, bearish) ==
    IF bullish > bearish + 1 THEN "bullish"
    ELSE IF bearish > bullish + 1 THEN "bearish"
    ELSE "neutral"

\* ------------------------------------------------------------------------
\* compute_technicals(bars): the snapshot and the locals the claims speak of
\* ------------------------------------------------------------------------

\* a series read off the bars' high instead of their close
ClosesFromHigh(bars) == [i \in 1..Len(bars) |-> bars[i].high]

\* closes = pd.Series([b.close for b in bars], dtype=float)
Closes(bars) == [i \in 1..Len(bars) |-> bars[i].close]

\* volumes = pd.Series([b.volume for b in bars], dtype=float)
Volumes(bars) == [i \in 1..Len(bars) |-> bars[i].volume]

NoRsi == [gain |-> None, loss |-> None, rsi_14 |-> None]

NoMacd == [macd |-> None, macd_signal |-> None, macd_hist |-> None]

NoBollinger == [bb_upper |-> None, bb_lower |-> None, nvar |-> 0, dev |-> 0]

\* the indicator sections: each assigns its fields of the fresh snapshot t0
\* only behind its history gate
Indicators(bars, t0) ==
    LET n       == Len(bars)
        closes  == Closes(bars)
        volumes == Volumes(bars)
        price   == closes[n]
    IN  Value({
          [tech |-> [t0 EXCEPT
                      !.rsi_14 = IF HasHistory(n, 14) THEN rsi.rsi_14 ELSE @,
                      !.macd = IF HasHistory(n, 26) THEN macd.macd ELSE @,
                      !.macd_signal = IF HasHistory(n, 26) THEN macd.macd_signal ELSE @,
                      !.macd_hist = IF HasHistory(n, 26) THEN macd.macd_hist ELSE @,
                      !.sma_20 = IF HasHistory(n, 20) THEN Sma(closes, 20) ELSE @,
                      !.sma_50 = IF HasHistory(n, 50) THEN Sma(closes, 50) ELSE @,
                      !.bb_upper = IF HasHistory(n, 20) THEN bb.bb_upper ELSE @,
                      !.bb_lower = IF HasHistory(n, 20) THEN bb.bb_lower ELSE @,
                      !.bb_pct = IF HasHistory(n, 20) /\ BandWidthGuard(bb.nvar)
                                 THEN BbPct(bb.dev, bb.nvar) ELSE @,
                      !.volume_ratio =
                          IF HasHistory(n, 20) /\ MeanVolumePositive(volumes)
                          THEN VolumeRatio(volumes) ELSE @],
           price |-> Some(price),
           gain |-> rsi.gain,
           loss |-> rsi.loss,
           band_width_sq |->
               IF HasHistory(n, 20) THEN Some(<<4 * bb.nvar, 95>>) ELSE None]
        : rsi  \in {IF HasHistory(n, 14) THEN Rsi14(closes) ELSE NoRsi},
          macd \in {IF HasHistory(n, 26) THEN Macd(closes) ELSE NoMacd},
          bb   \in {IF HasHistory(n, 20) THEN Bollinger(closes, price)
                    ELSE NoBollinger} })

\* the four votes, read off the snapshot's fields and the last close
Votes(t, price) ==
    <<RsiVote(t.rsi_14), MacdVote(t.macd_hist),
      SmaVote(t.sma_20, price), SmaVote(t.sma_50, price)>>

\* the overall trend heuristic on the indicators ind
Classify(ind) ==
    Value({ [tech |-> [ind.tech EXCEPT !.trend = Trend(c[1], c[2])],
             price |-> ind.price, gain |-> ind.gain, loss |-> ind.loss,
             band_width_sq |-> ind.band_width_sq,
             bullish_signals |-> Some(c[1]), bearish_signals |-> Some(c[2])]
          : c \in { <<Cardinality({i \in 1..4 : v[i] = "bullish"}),
                      Cardinality({i \in 1..4 : v[i] = "bearish"})>>
                  : v \in {Votes(ind.tech, Val(ind.price))} } })

compute_technicals(bars) ==
    IF InsufficientData(Len(bars))
    THEN [tech |-> NewTechnicals(Len(bars)), price |-> None, gain |-> None,
          loss |-> None, band_width_sq |-> None, bullish_signals |-> None,
          bearish_signals |-> None]
    ELSE Value({ Classify(ind) : ind \in {Indicators(bars, NewTechnicals(Len(bars)))} })

\* ------------------------------------------------------------------------
\* format_technicals(tech, current_price): the text block, one entry a line
\* ------------------------------------------------------------------------

\* tech.trend.upper()
Upper(trend) ==
    CASE trend = "bullish" -> "BULLISH"
      [] trend = "bearish" -> "BEARISH"
      [] trend = "neutral" -> "NEUTRAL"
      [] OTHER -> trend

\* (current_price or 0): None and 0.0 both count as 0
PriceOrZero(p) == IF IsNone(p) THEN 0 ELSE Val(p)

\* "above" already at the SMA
PricePositionAtOrAbove(p, sma) ==
    IF PriceOrZero(p) >= Val(sma) THEN "above" ELSE "below"

\* "above" if (current_price or 0) > sma else "below"
PricePosition(p, sma) ==
    IF PriceOrZero(p) > Val(sma) THEN "above" ELSE "below"

RsiLine(t) ==
    IF IsNone(t.rsi_14) THEN <<>>
    ELSE << <<"RSI(14)", t.rsi_14,
              IF Val(t.rsi_14) > 7000 THEN "overbought"
              ELSE IF Val(t.rsi_14) < 3000 THEN "oversold"
              ELSE "neutral">> >>

\* "bullish crossover" if tech.macd_hist and tech.macd_hist > 0
MacdLine(t) ==
    IF IsNone(t.macd) THEN <<>>
    ELSE << <<"MACD(12,26,9)", t.macd, t.macd_signal, t.macd_hist,
              IF ~IsNone(t.macd_hist) /\ Val(t.macd_hist) > 0
              THEN "bullish crossover" ELSE "bearish crossover">> >>

Sma20Line(t, p) ==
    IF IsNone(t.sma_20) THEN <<>>
    ELSE << <<"SMA-20", t.sma_20, PricePosition(p, t.sma_20)>> >>

Sma50Line(t, p) ==
    IF IsNone(t.sma_50) THEN <<>>
    ELSE << <<"SMA-50", t.sma_50, PricePosition(p, t.sma_50)>> >>

\* a Bollinger line only when the position is known
BollingerLineNeedsPct(t) ==
    IF IsNone(t.bb_upper) \/ IsNone(t.bb_pct) THEN <<>>
    ELSE << <<"Bollinger Bands", t.bb_lower, t.bb_upper, "pct", t.bb_pct>> >>

\* Position is f"{tech.bb_pct:.1%}" (the thousandths, read as tenths of a
\* percent) or "N/A"
BollingerLine(t) ==
    IF IsNone(t.bb_upper) THEN <<>>
    ELSE << <<"Bollinger Bands", t.bb_lower, t.bb_upper,
              IF IsNone(t.bb_pct) THEN "N/A" ELSE "pct", t.bb_pct>> >>

VolumeLine(t) ==
    IF IsNone(t.volume_ratio) THEN <<>>
    ELSE << <<"Volume ratio (vs 20d avg)", t.volume_ratio,
              IF Val(t.volume_ratio) > 150 THEN "high"
              ELSE IF Val(t.volume_ratio) < 50 THEN "low"
              ELSE "average">> >>

\* if tech.trend: (None and "" are falsy)
TrendLine(t) ==
    IF t.trend = "None" \/ t.trend = "" THEN <<>>
    ELSE << <<"Overall trend signal", Upper(t.trend)>> >>

NoDataLine == <<"No historical data available (IB Gateway not connected).">>

\* a sentinel only for a snapshot that has no RSI either
NoDataWithoutRsi(t) == t.bars_used = 0 /\ IsNone(t.rsi_14)

\* if tech.bars_used == 0
NoData(t) == t.bars_used = 0

format_technicals(t, p) ==
    IF NoData(t) THEN <<NoDataLine>>
    ELSE << <<"Based on daily bars", t.bars_used>> >>
         \o RsiLine(t) \o MacdLine(t)
         \o Sma20Line(t, p) \o Sma50Line(t, p)
         \o BollingerLine(t) \o VolumeLine(t) \o TrendLine(t)

\* ------------------------------------------------------------------------
\* The bar series the engine is given
\* ------------------------------------------------------------------------

\* two-step cycles of per-bar moves, in ticks of 4 cents.  Every close is a
\* multiple of 4 cents, so no mean of 20 or 50 closes lies exactly halfway
\* between two cents (where the binary float, not the decimal, would decide
\* the rounding).
Patterns == (-1..1) \X (-1..1)

Shocks == (-MaxShock)..MaxShock

VolumeKinds == {"zero", "flat", "spike"}

\* the close of bar i (1-based) of n: 100.00 plus the moves of the cycle,
\* plus the shock on the last bar
CloseAt(i, n, pat, shock) ==
    10000 + 4 * (pat[1] * (i \div 2) + pat[2] * ((i - 1) \div 2)
                 + (IF i = n THEN shock ELSE 0))

VolumeAt(i, n, kind) ==
    CASE kind = "zero"  -> 0
      [] kind = "flat"  -> 1000
      [] kind = "spike" -> IF i = n THEN 3000 ELSE 1000

MkBars(n, pat, shock, kind) ==
    [i \in 1..n |->
        Bar(i, CloseAt(i, n, pat, shock), CloseAt(i, n, pat, shock),
            CloseAt(i, n, pat, shock), CloseAt(i, n, pat, shock),
            VolumeAt(i, n, kind))]

\* the optional current price handed to the renderer (cents)
CurrentPrices == {None, Some(0), Some(9990), Some(10000), Some(10010)}

\* the series and prices a caller repeats in the repeated-call specification
RepeatLengths == {0, 13, 14, 20, 30}

RepeatPatterns == {<<0, 0>>, <<1, -1>>, <<1, 0>>}

RepeatPrices == {None, Some(10010)}

\* ------------------------------------------------------------------------
\* State of a request
\* ------------------------------------------------------------------------

VARIABLES
    pc,               \* where the request stands: idle, fetched, computed, formatted
    bars,             \* the List[Bar] handed to compute_technicals
    price,            \* local price = closes.iloc[-1] (cents), None before it is set
    gain,             \* local: last 14-period rolling sum of gains (mean * 14)
    loss,             \* local: last 14-period rolling sum of losses (mean * 14)
    band_width_sq,    \* local: band_width^2 as a quotient (cents^2)
    bullish_signals,  \* local counter of the trend heuristic
    bearish_signals,  \* local counter of the trend heuristic
    current_price,    \* the renderer's optional argument
    text,             \* the lines format_technicals returned
    first_call,       \* history: an earlier completed call, inputs and outputs
    interleaved,      \* history: a call on other inputs completed since first_call
    response          \* what the bridge answered and what the fetch raised

\* Two invocations in flight at once (threads or tasks of one process)
VARIABLES
    calls,            \* per invocation: its position, arguments, locals, results
    heap              \* the Technicals instances allocated so far, by reference

\* the state of the single request
requestVars == <<pc, bars, tech, price, gain, loss, band_width_sq,
                 bullish_signals, bearish_signals, current_price, text,
                 first_call, interleaved, response>>

\* The two services around the engine
VARIABLES
    bridge,           \* ib-bridge: settings, the IBClient, the last HTTP response
    agent             \* agent0-service: settings and the request being served

\* the state of the two invocations in flight
pairVars == <<calls, heap>>

\* the state of the two services
serviceVars == <<bridge, agent>>

VARIABLES
    order,            \* IBClient.place_order: the call, the broker's book, the result
    conn              \* IBClient's connection, the event loop's tasks and clock

\* the IBClient seen operation by operation
clientVars == <<order, conn>>

vars == <<requestVars, pairVars, serviceVars, clientVars>>

\* the two invocations in flight
Invocations == 1..2

\* an invocation that has not been made yet
NotCalled ==
    [pc |-> "idle", bars |-> <<>>, given |-> <<>>, alone |-> None, ref |-> 0,
     ind |-> None, current_price |-> None, text |-> <<>>, overlapped |-> FALSE]

\* ------------------------------------------------------------------------
\* ib-bridge: settings and the IBClient
\* ------------------------------------------------------------------------

\* IB_GATEWAY_PORT: 7497 for paper, 7496 for live
PaperPort == 7497

LivePort == 7496

\* IB_GATEWAY_HOST and IB_CLIENT_ID defaults
DefaultHost == "127.0.0.1"

DefaultClientId == 1

\* max_retries of IBClient._reconnect
MaxRetries == 5

\* the validation at import of config.py: the service starts only if
\* neither SAFETY CHECK raises
SettingsValid(paper_trading, port) ==
    /\ ~(~paper_trading /\ port = PaperPort)
    /\ ~(paper_trading /\ port = LivePort)

\* IBClient.__init__
NewIBClient(host, port, client_id) ==
    [host |-> host, port |-> port, client_id |-> client_id,
     connected |-> FALSE,        \* self._connected
     ib_connected |-> FALSE,     \* self.ib.isConnected()
     reconnect_task |-> "none",  \* none, running, cancelled or done
     retry_count |-> 0]          \* local of the running _reconnect

\* the process after config.py was imported, before lifespan's startup
BridgeStarting(paper_trading, port, auto_connect) ==
    [pc |-> "starting",
     PAPER_TRADING |-> paper_trading,
     IB_GATEWAY_PORT |-> port,
     AUTO_CONNECT |-> auto_connect,
     ib_client |-> NewIBClient(DefaultHost, port, DefaultClientId),
     attempted |-> {},           \* history: the ports connectAsync was called with
     response |-> None]          \* the last HTTP response sent

\* ------------------------------------------------------------------------
\* agent0-service: settings and the request being served
\* ------------------------------------------------------------------------

\* a member of the parsed LLM reply: absent, null, a number (carried in
\* hundredths, so that 0.5 is 50) or a text
Absent == [t |-> "absent", n |-> 0, s |-> ""]

JsonNull == [t |-> "null", n |-> 0, s |-> ""]

Num(n) == [t |-> "number", n |-> n, s |-> ""]

Text(s) == [t |-> "text", n |-> 0, s |-> s]

\* suggestion_data with none of the members read by get_suggestion
EmptyObject ==
    [action |-> Absent, confidence |-> Absent, signal_strength |-> Absent,
     time_horizon |-> Absent, risk_level |-> Absent, entry_price |-> Absent,
     target_price |-> Absent, stop_loss |-> Absent]

\* no SuggestionResponse built
NoSuggestion ==
    [raised |-> "none", action |-> "none", confidence |-> 0,
     signal_strength |-> "none", time_horizon |-> "none", risk_level |-> "none",
     entry_price |-> None, target_price |-> None, stop_loss |-> None]

\* the service with settings.llm_provider set, no request in progress
AgentIdle(provider) ==
    [pc |-> "idle", llm_provider |-> provider, endpoint |-> "none",
     include_market_data |-> FALSE, include_memory |-> FALSE,
     llm |-> "none", data |-> EmptyObject, raised |-> "none",
     suggestion |-> NoSuggestion, status |-> 0]

\* place_order not called, nothing submitted to the broker
NoOrder ==
    [pc |-> "idle", args |-> <<>>, qualify |-> "none", placed |-> <<>>,
     raised |-> "none", returned |-> None, next_id |-> 1]

\* no IBClient constructed
NoConn == [pc |-> "none"]

\* no request made yet
NoResponse == [kind |-> "none", raised |-> "none"]

\* ------------------------------------------------------------------------
\* Initial state
\* ------------------------------------------------------------------------

Init ==
    /\ pc = "idle"
    /\ bars = <<>>
    /\ tech = Technicals(0)
    /\ price = None
    /\ gain = None
    /\ loss = None
    /\ band_width_sq = None
    /\ bullish_signals = None
    /\ bearish_signals = None
    /\ current_price = None
    /\ text = <<>>
    /\ first_call = None
    /\ interleaved = FALSE
    /\ response = NoResponse
    /\ calls = [c \in Invocations |-> NotCalled]
    /\ heap = <<>>
    /\ bridge = BridgeStarting(TRUE, PaperPort, TRUE)
    /\ agent = AgentIdle("ollama")
    /\ order = NoOrder
    /\ conn = NoConn

\* ------------------------------------------------------------------------
\* Actions
\* ------------------------------------------------------------------------

\* the ways GET /candles/{symbol} fails the fetch: a status other than 200,
\* no connection, a body that is not JSON, JSON that is not an object,
\* "candles": null, a candle that is not an object, a field that is no number
FailureKinds ==
    {"non_200", "connect_error", "not_json", "not_object", "candles_null",
     "bad_candle", "bad_number"}

\* the exception raised inside the try block of fetch_historical_bars
RaisedInTry(kind) ==
    CASE kind = "connect_error" -> "ConnectError"
      [] kind = "not_json"      -> "JSONDecodeError"
      [] kind = "not_object"    -> "AttributeError"
      [] kind = "candles_null"  -> "TypeError"
      [] kind = "bad_candle"    -> "AttributeError"
      [] kind = "bad_number"    -> "ValueError"
      [] OTHER                  -> "none"

\* an except clause for transport errors only
CaughtTransportOnly(exc) == exc = "ConnectError"

\* except Exception as e: every exception of the try block is caught
Caught(exc) == TRUE

\* float(c.get(field, 0)): a missing field counts as 0
FieldOrZero(field) == IF IsNone(field) THEN 0 ELSE Val(field)

\* Bar(time=c.get("time", ""), open=float(c.get("open", 0)), ...)
BarOf(c) ==
    Bar(c.time, FieldOrZero(c.open), FieldOrZero(c.high), FieldOrZero(c.low),
        FieldOrZero(c.close), FieldOrZero(c.volume))

\* a candle of the payload carrying the fields of bar b
CandleOf(b) ==
    [time |-> b.time, open |-> Some(b.open), high |-> Some(b.high),
     low |-> Some(b.low), close |-> Some(b.close), volume |-> Some(b.volume)]

\* fetch_historical_bars on a response of the given kind whose payload, if
\* it is read at all, holds candles: the bars returned and the exception
\* that escapes
FetchedBars(kind, candles) ==
    LET exc == RaisedInTry(kind)
    IN  IF exc # "none"
        THEN [bars |-> <<>>, raised |-> IF Caught(exc) THEN "none" ELSE exc]
        ELSE IF kind = "non_200"
        THEN [bars |-> <<>>, raised |-> "none"]
        ELSE [bars |-> [i \in 1..Len(candles) |-> BarOf(candles[i])],
              raised |-> "none"]

\* a request obtains its bar series (oldest first) from the bar collaborator
FetchFrom(lengths, patterns, shocks, kinds, failures) ==
    /\ pc = "idle"
    /\ \E kind \in {"ok"} \cup failures :
          \E n \in IF kind = "ok" THEN lengths ELSE {1},
             pat \in IF kind = "ok" THEN patterns ELSE {<<0, 0>>},
             shock \in IF kind = "ok" THEN shocks ELSE {0},
             vol \in IF kind = "ok" THEN kinds ELSE {"flat"} :
              \E r \in {FetchedBars(kind,
                             [i \in 1..n |-> CandleOf(MkBars(n, pat, shock, vol)[i])])} :
                  /\ bars' = r.bars
                  /\ response' = [kind |-> kind, raised |-> r.raised]
                  /\ pc' = IF r.raised = "none" THEN "fetched" ELSE "raised"
    /\ UNCHANGED <<tech, price, gain, loss, band_width_sq, bullish_signals,
                   bearish_signals, current_price, text, first_call, interleaved>>
    /\ UNCHANGED <<pairVars, serviceVars, clientVars>>

fetch_historical_bars ==
    FetchFrom(0..MaxBars, Patterns, Shocks, VolumeKinds, FailureKinds)

fetch_repeated == FetchFrom(RepeatLengths, RepeatPatterns, {0}, {"flat"}, {})

\* tech = compute_technicals(bars)
ComputeTechnicals ==
    /\ pc = "fetched"
    /\ \E r \in {compute_technicals(bars)} :
           /\ tech' = r.tech
           /\ price' = r.price
           /\ gain' = r.gain
           /\ loss' = r.loss
           /\ band_width_sq' = r.band_width_sq
           /\ bullish_signals' = r.bullish_signals
           /\ bearish_signals' = r.bearish_signals
    /\ pc' = "computed"
    /\ UNCHANGED <<bars, current_price, text, first_call, interleaved, response>>
    /\ UNCHANGED <<pairVars, serviceVars, clientVars>>

FormatFrom(prices) ==
    /\ pc = "computed"
    /\ \E p \in prices :
          /\ current_price' = p
          /\ text' = format_technicals(tech, p)
    /\ pc' = "formatted"
    /\ UNCHANGED <<bars, tech, price, gain, loss, band_width_sq, bullish_signals,
                   bearish_signals, first_call, interleaved, response>>
    /\ UNCHANGED <<pairVars, serviceVars, clientVars>>

\* text = format_technicals(tech, current_price)
FormatTechnicals == FormatFrom(CurrentPrices)

format_repeated == FormatFrom(RepeatPrices)

ThisCall == [bars |-> bars, current_price |-> current_price, tech |-> tech, text |-> text]

SameInputs(c) == c.bars = bars /\ c.current_price = current_price

\* the request ends; nothing of it is kept by the module (the variables keep
\* the values the finished call left behind, which the next call must not read)
Return ==
    /\ pc = "formatted"
    /\ pc' = "idle"
    /\ \/ /\ IsNone(first_call)
          /\ first_call' = Some(ThisCall)
          /\ interleaved' = FALSE
       \/ /\ first_call' = first_call
          /\ interleaved' =
                (interleaved \/ (~IsNone(first_call) /\ ~SameInputs(Val(first_call))))
    /\ UNCHANGED <<bars, tech, price, gain, loss, band_width_sq, bullish_signals,
                   bearish_signals, current_price, text, response>>
    /\ UNCHANGED <<pairVars, serviceVars, clientVars>>

\* one request: fetch, compute, render
Next == fetch_historical_bars \/ ComputeTechnicals \/ FormatTechnicals

Spec == Init /\ [][Next]_vars

\* a caller issuing request after request
NextCalls == fetch_repeated \/ ComputeTechnicals \/ format_repeated \/ Return

SpecCalls == Init /\ [][NextCalls]_vars

\* ------------------------------------------------------------------------
\* format_technicals on snapshots of any content
\* ------------------------------------------------------------------------

\* the fields a snapshot handed to the renderer may hold (macd_signal goes
\* with macd, bb_lower with bb_upper)
SnapshotFields ==
    {"rsi_14", "macd", "macd_hist", "sma_20", "sma_50", "bb_upper", "bb_pct",
     "volume_ratio", "trend"}

\* the values the held fields take together: low, zero or high readings
Levels == {"low", "zero", "high"}

BarsUsedValues == {0, 1, 13, 30}

\* the value of field f at level l, in the field's unit
FieldAt(f, l) ==
    CASE f = "rsi_14"       -> (CASE l = "low" -> 2500 [] l = "zero" -> 0 [] l = "high" -> 7500)
      [] f = "macd"         -> (CASE l = "low" -> -1200 [] l = "zero" -> 0 [] l = "high" -> 1200)
      [] f = "macd_signal"  -> (CASE l = "low" -> -500 [] l = "zero" -> 0 [] l = "high" -> 500)
      [] f = "macd_hist"    -> (CASE l = "low" -> -700 [] l = "zero" -> 0 [] l = "high" -> 700)
      [] f = "sma_20"       -> (CASE l = "low" -> 9990 [] l = "zero" -> 0 [] l = "high" -> 10005)
      [] f = "sma_50"       -> (CASE l = "low" -> -500 [] l = "zero" -> 0 [] l = "high" -> 10000)
      [] f = "bb_upper"     -> (CASE l = "low" -> 9950 [] l = "zero" -> 0 [] l = "high" -> 10100)
      [] f = "bb_lower"     -> (CASE l = "low" -> 9850 [] l = "zero" -> 0 [] l = "high" -> 9900)
      [] f = "bb_pct"       -> (CASE l = "low" -> -250 [] l = "zero" -> 0 [] l = "high" -> 1200)
      [] f = "volume_ratio" -> (CASE l = "low" -> 30 [] l = "zero" -> 0 [] l = "high" -> 200)

TrendAt(l) == CASE l = "low" -> "bearish" [] l = "zero" -> "neutral" [] l = "high" -> "bullish"

\* Technicals(...) with the fields in held set at level l
AnySnapshot(held, l, bars_used) ==
    LET opt(k, f) == IF k \in held THEN Some(FieldAt(f, l)) ELSE None
    IN  [rsi_14 |-> opt("rsi_14", "rsi_14"),
         macd |-> opt("macd", "macd"),
         macd_signal |-> opt("macd", "macd_signal"),
         macd_hist |-> opt("macd_hist", "macd_hist"),
         sma_20 |-> opt("sma_20", "sma_20"),
         sma_50 |-> opt("sma_50", "sma_50"),
         bb_upper |-> opt("bb_upper", "bb_upper"),
         bb_lower |-> opt("bb_upper", "bb_lower"),
         bb_pct |-> opt("bb_pct", "bb_pct"),
         volume_ratio |-> opt("volume_ratio", "volume_ratio"),
         trend |-> IF "trend" \in held THEN TrendAt(l) ELSE "None",
         bars_used |-> bars_used]

\* a caller holds a snapshot of any content and is about to render it
InitFormat ==
    /\ pc = "computed"
    /\ bars = <<>>
    /\ \E held \in SUBSET SnapshotFields, l \in Levels, n \in BarsUsedValues :
          tech = AnySnapshot(held, l, n)
    /\ price = None
    /\ gain = None
    /\ loss = None
    /\ band_width_sq = None
    /\ bullish_signals = None
    /\ bearish_signals = None
    /\ current_price = None
    /\ text = <<>>
    /\ first_call = None
    /\ interleaved = FALSE
    /\ response = NoResponse
    /\ calls = [c \in Invocations |-> NotCalled]
    /\ heap = <<>>
    /\ bridge = BridgeStarting(TRUE, PaperPort, TRUE)
    /\ agent = AgentIdle("ollama")
    /\ order = NoOrder
    /\ conn = NoConn

NextFormat == FormatTechnicals

SpecFormat == InitFormat /\ [][NextFormat]_vars

\* ------------------------------------------------------------------------
\* Two invocations in flight: compute_technicals taken section by section
\* ------------------------------------------------------------------------

\* lengths, shapes and variations of the series the two invocations are given
PairLengths == {13, 21, 51}

PairPatterns == {<<0, 0>>, <<1, -1>>}

Variations == {"none", "ohlc", "old20", "old50", "drop"}

\* a series related to s: other time/open/high/low on every bar, other
\* closes and volumes on the bars older than the last 20 or the last 50, or
\* the oldest bar missing
Vary(s, v) ==
    CASE v = "none"  -> s
      [] v = "ohlc"  -> [i \in 1..Len(s) |->
                            Bar(s[i].time + 100, s[i].open + 8, s[i].high + 16,
                                s[i].low - 16, s[i].close, s[i].volume)]
      [] v = "old20" -> [i \in 1..Len(s) |->
                            IF i <= Len(s) - 20
                            THEN [s[i] EXCEPT !.close = @ + 40, !.volume = @ + 500]
                            ELSE s[i]]
      [] v = "old50" -> [i \in 1..Len(s) |->
                            IF i <= Len(s) - 50
                            THEN [s[i] EXCEPT !.close = @ + 40, !.volume = @ + 500]
                            ELSE s[i]]
      [] v = "drop"  -> Tail(s)

PairSeries ==
    { Vary(MkBars(n, pat, 0, "spike"), v) :
        n \in PairLengths, pat \in PairPatterns, v \in Variations }

\* every call writing into the one instance at reference 1
AllocRefShared(h) == 1

\* Technicals(...) yields an instance no other reference points to
AllocRef(h) == Len(h) + 1

\* the heap with the instance at reference r set to t
Store(h, r, t) == IF r > Len(h) THEN Append(h, t) ELSE [h EXCEPT ![r] = t]

\* invocation k is between its allocation and its return
Busy(k) == calls[k].pc \in {"allocated", "indicated"}

\* invocation c takes a step while the other one is in the middle of its own
Overlaps(c) == Busy(c) /\ \E k \in Invocations \ {c} : Busy(k)

\* compute_technicals(bars) is called; given and alone are history: the
\* series as it was passed and the snapshot of a call that runs by itself.
\* Invocation 1 is the one that is called first.
Call(c) ==
    /\ calls[c].pc = "idle"
    /\ \A k \in Invocations : k < c => calls[k].pc # "idle"
    /\ \E s \in PairSeries :
          calls' = [calls EXCEPT ![c] =
                       [@ EXCEPT !.pc = "called", !.bars = s, !.given = s,
                                 !.alone = Some(compute_technicals(s).tech)]]
    /\ UNCHANGED heap
    /\ UNCHANGED <<requestVars, serviceVars, clientVars>>

\* tech = Technicals(bars_used=len(bars)); if len(bars) < 14: return tech
Allocate(c) ==
    /\ calls[c].pc = "called"
    /\ \E r \in {AllocRef(heap)} :
          /\ heap' = Store(heap, r, NewTechnicals(Len(calls[c].bars)))
          /\ calls' = [calls EXCEPT ![c] =
                          [@ EXCEPT !.ref = r,
                                    !.pc = IF InsufficientData(Len(calls[c].bars))
                                           THEN "computed" ELSE "allocated"]]
    /\ UNCHANGED <<requestVars, serviceVars, clientVars>>

\* the indicator sections assign the fields of the instance tech refers to
ComputeIndicators(c) ==
    /\ calls[c].pc = "allocated"
    /\ \E ind \in {Indicators(calls[c].bars, heap[calls[c].ref])} :
          /\ heap' = Store(heap, calls[c].ref, ind.tech)
          /\ calls' = [calls EXCEPT ![c] =
                          [@ EXCEPT !.ind = Some(ind), !.pc = "indicated"]]
    /\ UNCHANGED <<requestVars, serviceVars, clientVars>>

\* the trend heuristic reads the instance's fields and sets its trend
ClassifyTrend(c) ==
    /\ calls[c].pc = "indicated"
    /\ \E r \in {Classify([Val(calls[c].ind) EXCEPT !.tech = heap[calls[c].ref]])} :
          /\ heap' = Store(heap, calls[c].ref, r.tech)
          /\ calls' = [calls EXCEPT ![c] =
                          [@ EXCEPT !.pc = "computed",
                                    !.overlapped = @ \/ Overlaps(c)]]
    /\ UNCHANGED <<requestVars, serviceVars, clientVars>>

\* the current price invocation c renders with: none for the first
PairPrice(c) == IF c = 1 THEN None ELSE Some(10010)

\* text = format_technicals(tech, current_price)
Format(c) ==
    /\ calls[c].pc = "computed"
    /\ \E p \in {PairPrice(c)} :
          calls' = [calls EXCEPT ![c] =
                       [@ EXCEPT !.pc = "formatted", !.current_price = p,
                                 !.text = format_technicals(heap[calls[c].ref], p)]]
    /\ UNCHANGED heap
    /\ UNCHANGED <<requestVars, serviceVars, clientVars>>

NextPair ==
    \E c \in Invocations :
        Call(c) \/ Allocate(c) \/ ComputeIndicators(c) \/ ClassifyTrend(c) \/ Format(c)

SpecPair == Init /\ [][NextPair]_vars

\* ------------------------------------------------------------------------
\* ib-bridge: the FastAPI handlers of main.py over the IBClient
\* ------------------------------------------------------------------------

\* the gateway ports an operator may configure (4002: IB Gateway's own default)
GatewayPorts == {LivePort, PaperPort, 4002}

\* the bodies of POST /connect: every field optional
ConnectRequests ==
    [host : {None, Some("gateway")},
     port : {None, Some(0), Some(LivePort), Some(PaperPort)},
     client_id : {None, Some(2)}]

\* the REST endpoints that need the gateway
RestEndpoints ==
    {"GET /quotes/{symbol}", "POST /candles/{symbol}", "GET /candles/{symbol}",
     "POST /orders", "GET /orders/{order_id}", "GET /positions", "GET /account"}

\* IBClient.is_connected
IsConnected(c) == c.connected /\ c.ib_connected

\* IBClient.connect: connectAsync succeeds (ok) or raises; the exception is
\* re-raised to the caller after _connected is cleared
Connect(c, ok) ==
    [c EXCEPT !.connected = ok, !.ib_connected = ok]

\* IBClient._on_disconnected: clears _connected and starts _reconnect unless
\* a task exists that is not done
OnDisconnected(c, task_pending) ==
    [c EXCEPT !.connected = FALSE,
              !.reconnect_task = IF task_pending THEN @ ELSE "running",
              !.retry_count = IF task_pending THEN @ ELSE 0]

\* a number field that is given and truthy (if request.port:)
Truthy(field) == ~IsNone(field) /\ Val(field) # 0

\* a text field that is given and truthy (if request.host:)
TruthyText(field) == ~IsNone(field) /\ Val(field) # ""

\* main.connect: update connection settings if provided
WithSettings(c, request) ==
    [c EXCEPT !.host = IF TruthyText(request.host) THEN Val(request.host) ELSE @,
              !.port = IF Truthy(request.port) THEN Val(request.port) ELSE @,
              !.client_id = IF Truthy(request.client_id)
                            THEN Val(request.client_id) ELSE @]

\* the response of a handler, with what the claims ask of it
Response(endpoint, status, was_connected, invoked) ==
    Some([endpoint |-> endpoint, status |-> status,
          was_connected |-> was_connected, invoked |-> invoked])

\* try: ... except Exception as e: raise HTTPException(status_code=500):
\* HTTPException is an Exception, so the 503 raised in the try block is
\* caught as well and leaves as a 500
StatusAfterExcept(raised) ==
    IF raised = "none" THEN 200 ELSE 500

\* lifespan, startup: the client is built from the settings and connected
\* if AUTO_CONNECT; a failure is logged
Startup ==
    /\ bridge.pc = "starting"
    /\ \E ok \in BOOLEAN :
          bridge' =
              IF bridge.AUTO_CONNECT
              THEN [bridge EXCEPT !.pc = "serving",
                                  !.ib_client = Connect(@, ok),
                                  !.attempted = @ \cup {bridge.ib_client.port}]
              ELSE [bridge EXCEPT !.pc = "serving"]
    /\ UNCHANGED <<requestVars, pairVars, agent, clientVars>>

\* POST /connect
PostConnect ==
    /\ bridge.pc = "serving"
    /\ \E request \in ConnectRequests, ok \in BOOLEAN :
          bridge' =
              IF IsConnected(bridge.ib_client)
              THEN [bridge EXCEPT !.response = Response("POST /connect", 200, TRUE, FALSE)]
              ELSE LET c == WithSettings(bridge.ib_client, request)
                   IN  [bridge EXCEPT
                          !.ib_client = Connect(c, ok),
                          !.attempted = @ \cup {c.port},
                          !.response =
                              Response("POST /connect",
                                       StatusAfterExcept(IF ok THEN "none" ELSE "Exception"),
                                       FALSE, TRUE)]
    /\ UNCHANGED <<requestVars, pairVars, agent, clientVars>>

\* POST /disconnect: IBClient.disconnect cancels the reconnect task and
\* disconnects; the library may emit disconnectedEvent while it does
PostDisconnect ==
    /\ bridge.pc = "serving"
    /\ \E emitted \in BOOLEAN :
          bridge' =
              IF ~IsConnected(bridge.ib_client)
              THEN [bridge EXCEPT !.response = Response("POST /disconnect", 200, FALSE, FALSE)]
              ELSE LET c0 == bridge.ib_client
                       c1 == IF emitted
                             THEN OnDisconnected(c0, c0.reconnect_task = "running")
                             ELSE c0
                   IN  [bridge EXCEPT
                          !.ib_client =
                              [c1 EXCEPT !.connected = FALSE, !.ib_connected = FALSE,
                                         !.reconnect_task =
                                             IF c0.reconnect_task = "running"
                                             THEN "done" ELSE @],
                          !.response = Response("POST /disconnect", 200, TRUE, TRUE)]
    /\ UNCHANGED <<requestVars, pairVars, agent, clientVars>>

\* the gateway drops the connection: disconnectedEvent
ConnectionLost ==
    /\ bridge.pc = "serving"
    /\ bridge.ib_client.ib_connected
    /\ bridge' = [bridge EXCEPT
                    !.ib_client =
                        [OnDisconnected(@, @.reconnect_task = "running")
                            EXCEPT !.ib_connected = FALSE]]
    /\ UNCHANGED <<requestVars, pairVars, agent, clientVars>>

\* one round of IBClient._reconnect: connect again with the client's own
\* host and port; give up after max_retries failures
ReconnectAttempt ==
    /\ bridge.pc = "serving"
    /\ bridge.ib_client.reconnect_task = "running"
    /\ bridge.ib_client.retry_count < MaxRetries
    /\ \E ok \in BOOLEAN :
          bridge' = [bridge EXCEPT
                       !.attempted = @ \cup {bridge.ib_client.port},
                       !.ib_client =
                           [Connect(@, ok) EXCEPT
                               !.retry_count = IF ok THEN @ ELSE @ + 1,
                               !.reconnect_task =
                                   IF ok \/ bridge.ib_client.retry_count + 1 = MaxRetries
                                   THEN "done" ELSE @]]
    /\ UNCHANGED <<requestVars, pairVars, agent, clientVars>>

\* GET /quotes, POST and GET /candles, POST /orders, GET /orders,
\* GET /positions, GET /account: the connection test, then the client's
\* operation, both inside the handler's try block
RestRequest ==
    /\ bridge.pc = "serving"
    /\ \E endpoint \in RestEndpoints, ok \in BOOLEAN :
          bridge' =
              IF ~IsConnected(bridge.ib_client)
              THEN [bridge EXCEPT
                      !.response = Response(endpoint,
                                            StatusAfterExcept("HTTPException(503)"),
                                            FALSE, FALSE)]
              ELSE [bridge EXCEPT
                      !.response = Response(endpoint,
                                            StatusAfterExcept(IF ok THEN "none" ELSE "Exception"),
                                            TRUE, TRUE)]
    /\ UNCHANGED <<requestVars, pairVars, agent, clientVars>>

\* the service starts under any settings that pass config.py's validation
InitBridge ==
    /\ pc = "idle"
    /\ bars = <<>>
    /\ tech = Technicals(0)
    /\ price = None
    /\ gain = None
    /\ loss = None
    /\ band_width_sq = None
    /\ bullish_signals = None
    /\ bearish_signals = None
    /\ current_price = None
    /\ text = <<>>
    /\ first_call = None
    /\ interleaved = FALSE
    /\ response = NoResponse
    /\ calls = [c \in Invocations |-> NotCalled]
    /\ heap = <<>>
    /\ \E paper_trading \in BOOLEAN, port \in GatewayPorts, auto_connect \in BOOLEAN :
          /\ SettingsValid(paper_trading, port)
          /\ bridge = BridgeStarting(paper_trading, port, auto_connect)
    /\ agent = AgentIdle("ollama")
    /\ order = NoOrder
    /\ conn = NoConn

NextBridge ==
    \/ Startup
    \/ PostConnect
    \/ PostDisconnect
    \/ ConnectionLost
    \/ ReconnectAttempt
    \/ RestRequest

SpecBridge == InitBridge /\ [][NextBridge]_vars

\* ------------------------------------------------------------------------
\* agent0-service: POST /suggest and POST /v1/plan over Agent0.get_suggestion
\* ------------------------------------------------------------------------

\* LLMProvider
Providers == {"ollama", "openai", "anthropic"}

\* what the provider's HTTP call comes to: a reply text that parses to a
\* JSON object, to JSON that is not an object, or does not parse; an HTTP
\* body that is not JSON (response.json() fails inside the call), no
\* connection, an HTTP error status; for the paid providers also a missing
\* API key
LlmOutcomes(provider) ==
    {"json_object", "json_other", "not_json", "body_not_json", "ConnectError",
     "HTTPStatusError"}
        \cup (IF provider = "ollama" THEN {} ELSE {"no_api_key"})

\* the exception leaving _call_llm: _call_ollama turns httpx.ConnectError
\* into RuntimeError, every other exception is logged and re-raised
CallLlmRaises(provider, outcome) ==
    CASE outcome = "ConnectError" ->
             IF provider = "ollama" THEN "RuntimeError" ELSE "ConnectError"
      [] outcome = "HTTPStatusError" -> "HTTPStatusError"
      [] outcome = "body_not_json" -> "JSONDecodeError"
      [] outcome = "no_api_key" -> "ValueError"
      [] OTHER -> "none"

\* the JSON objects the LLM may answer with: each member absent, valid, or
\* invalid in one of the ways JSON allows
LlmObjects ==
    [action : {Absent, Text("SELL"), Text("buy"), Num(100)},
     confidence : {Absent, JsonNull, Text("high"), Num(-500), Num(0), Num(50),
                   Num(100), Num(8000), Num(10000), Num(15000)},
     signal_strength : {Absent, Text("strong"), Text("bogus")},
     time_horizon : {Absent, Text("scalp")},
     risk_level : {Absent},
     entry_price : {Absent, Num(15000), Text("n/a")},
     target_price : {Absent},
     stop_loss : {Absent}]

\* Action, SignalStrength, TimeHorizon
Actions == {"BUY", "SELL", "HOLD", "WATCH"}

SignalStrengths == {"strong", "moderate", "weak"}

TimeHorizons == {"scalp", "swing", "position"}

\* except json.JSONDecodeError: "Return a safe default"
UnableToParse ==
    [EmptyObject EXCEPT !.action = Text("WATCH"), !.confidence = Num(3000),
                        !.signal_strength = Text("weak"),
                        !.time_horizon = Text("swing"),
                        !.risk_level = Text("high")]

\* except Exception: "LLM unavailable ... Returning safe HOLD."
LlmUnavailable ==
    [EmptyObject EXCEPT !.action = Text("HOLD"), !.confidence = Num(1000),
                        !.signal_strength = Text("weak"),
                        !.time_horizon = Text("swing"),
                        !.risk_level = Text("high")]

\* safe_enum(enum_cls, suggestion_data.get(key, default), default)
safe_enum(members, value, default) ==
    IF value.t = "text" /\ value.s \in members THEN value.s ELSE default

\* confidence = suggestion_data.get("confidence", 50); a number <= 1 is
\* multiplied by 100, anything that is no number becomes 50
Confidence(value) ==
    IF value.t = "absent" THEN 5000
    ELSE IF value.t = "number"
    THEN (IF value.n <= 100 THEN value.n * 100 ELSE value.n)
    ELSE 5000

\* suggestion_data.get(key) into an Optional[float] field
OptionalFloat(value) == IF value.t = "number" THEN Some(value.n) ELSE None

\* the fields SuggestionResponse(...) rejects: confidence outside ge=0,
\* le=100, a price that is no number
Rejected(d) ==
    \/ Confidence(d.confidence) < 0
    \/ Confidence(d.confidence) > 10000
    \/ \E level \in {d.entry_price, d.target_price, d.stop_loss} : level.t = "text"

\* "Build response": lines 267-305 on suggestion_data
BuildResponse(d) ==
    IF Rejected(d)
    THEN [NoSuggestion EXCEPT !.raised = "ValidationError"]
    ELSE [raised |-> "none",
          action |-> safe_enum(Actions, d.action, "WATCH"),
          confidence |-> Confidence(d.confidence),
          signal_strength |-> safe_enum(SignalStrengths, d.signal_strength, "moderate"),
          time_horizon |-> safe_enum(TimeHorizons, d.time_horizon, "swing"),
          risk_level |-> IF d.risk_level.t = "text" THEN d.risk_level.s ELSE "medium",
          entry_price |-> OptionalFloat(d.entry_price),
          target_price |-> OptionalFloat(d.target_price),
          stop_loss |-> OptionalFloat(d.stop_loss)]

\* Agent0.get_suggestion from the LLM call on.  A JSONDecodeError of
\* json.loads gives the WATCH default; the same exception leaving
\* _call_llm reaches that handler with llm_response unbound, and the
\* handler's own log line raises; any other exception of the call
\* (RuntimeError included) gives the HOLD fallback; a parsed value that is
\* no object fails at suggestion_data.get, outside the try block
SuggestionOf(provider, outcome, data) ==
    LET raised == CallLlmRaises(provider, outcome)
    IN  IF raised = "JSONDecodeError"
        THEN [NoSuggestion EXCEPT !.raised = "UnboundLocalError"]
        ELSE IF raised # "none"
        THEN BuildResponse(LlmUnavailable)
        ELSE IF outcome = "not_json"
        THEN BuildResponse(UnableToParse)
        ELSE IF outcome = "json_other"
        THEN [NoSuggestion EXCEPT !.raised = "AttributeError"]
        ELSE BuildResponse(data)

\* the handlers' except clauses: RuntimeError -> 503, Exception -> 500
StatusOf(raised) ==
    IF raised = "none" THEN 200
    ELSE IF raised = "RuntimeError" THEN 503 ELSE 500

\* POST /suggest with its two flags, or POST /v1/plan, which sets
\* include_memory and takes include_market_data from bool(symbol)
ReceiveRequest ==
    /\ agent.pc = "idle"
    /\ \E endpoint \in {"POST /suggest", "POST /v1/plan"},
          market \in BOOLEAN, memory \in BOOLEAN :
          /\ endpoint = "POST /v1/plan" => memory
          /\ agent' = [agent EXCEPT !.pc = "received", !.endpoint = endpoint,
                                    !.include_market_data = market,
                                    !.include_memory = memory]
    /\ UNCHANGED <<requestVars, pairVars, bridge, clientVars>>

\* await agent0.get_suggestion(request); the two context fetches before the
\* LLM call catch every exception of their own and change no outcome
GetSuggestion ==
    /\ agent.pc = "received"
    /\ \E outcome \in LlmOutcomes(agent.llm_provider) :
          \E data \in IF outcome = "json_object" THEN LlmObjects ELSE {EmptyObject} :
              \E r \in {SuggestionOf(agent.llm_provider, outcome, data)} :
                  agent' = [agent EXCEPT !.pc = "returned", !.llm = outcome,
                                         !.data = data, !.raised = r.raised,
                                         !.suggestion = r]
    /\ UNCHANGED <<requestVars, pairVars, bridge, clientVars>>

\* the handler's try/except around get_suggestion decides the status
Respond ==
    /\ agent.pc = "returned"
    /\ agent' = [agent EXCEPT !.pc = "responded", !.status = StatusOf(agent.raised)]
    /\ UNCHANGED <<requestVars, pairVars, bridge, clientVars>>

\* the service starts with one of the providers configured
InitAgent ==
    /\ pc = "idle"
    /\ bars = <<>>
    /\ tech = Technicals(0)
    /\ price = None
    /\ gain = None
    /\ loss = None
    /\ band_width_sq = None
    /\ bullish_signals = None
    /\ bearish_signals = None
    /\ current_price = None
    /\ text = <<>>
    /\ first_call = None
    /\ interleaved = FALSE
    /\ response = NoResponse
    /\ calls = [c \in Invocations |-> NotCalled]
    /\ heap = <<>>
    /\ bridge = BridgeStarting(TRUE, PaperPort, TRUE)
    /\ \E provider \in Providers : agent = AgentIdle(provider)
    /\ order = NoOrder
    /\ conn = NoConn

NextAgent == ReceiveRequest \/ GetSuggestion \/ Respond

SpecAgent == InitAgent /\ [][NextAgent]_vars

\* ------------------------------------------------------------------------
\* ib-bridge: IBClient.place_order
\* ------------------------------------------------------------------------

\* order types a caller may send: the three supported ones, one the broker
\* knows but the client does not, and a lower-case spelling
OrderTypes == {"MKT", "LMT", "STP", "MOC", "lmt"}

\* limit_price and stop_price: Optional[float], 0.0 included
OrderPrices == {None, Some(0), Some(150)}

\* the first order id the broker's client hands out
FirstOrderIds == {1, 7}

\* the arguments of place_order
OrderCalls ==
    [symbol : {"AAPL"}, action : {"BUY", "SELL"}, quantity : {1, 100},
     order_type : OrderTypes, limit_price : OrderPrices,
     stop_price : OrderPrices]

\* what qualifyContractsAsync comes to: a contract, the empty list, or an
\* exception of its own
QualifyOutcomes == {"qualified", "unknown", "error"}

\* ib_insync's MarketOrder, LimitOrder and StopOrder
MarketOrder(action, quantity) ==
    [orderType |-> "MKT", action |-> action, totalQuantity |-> quantity,
     lmtPrice |-> None, auxPrice |-> None]

LimitOrder(action, quantity, limit_price) ==
    [orderType |-> "LMT", action |-> action, totalQuantity |-> quantity,
     lmtPrice |-> Some(limit_price), auxPrice |-> None]

StopOrder(action, quantity, stop_price) ==
    [orderType |-> "STP", action |-> action, totalQuantity |-> quantity,
     lmtPrice |-> None, auxPrice |-> Some(stop_price)]

\* a chain that ends in a market order instead of the final else
CreateOrderElseMarket(a) ==
    IF a.order_type = "LMT"
    THEN IF IsNone(a.limit_price)
         THEN [raised |-> "ValueError", order |-> None]
         ELSE [raised |-> "none",
               order |-> Some(LimitOrder(a.action, a.quantity, Val(a.limit_price)))]
    ELSE IF a.order_type = "STP"
    THEN IF IsNone(a.stop_price)
         THEN [raised |-> "ValueError", order |-> None]
         ELSE [raised |-> "none",
               order |-> Some(StopOrder(a.action, a.quantity, Val(a.stop_price)))]
    ELSE [raised |-> "none", order |-> Some(MarketOrder(a.action, a.quantity))]

\* Create order based on type: the if/elif chain of place_order
CreateOrder(a) ==
    IF a.order_type = "MKT"
    THEN [raised |-> "none", order |-> Some(MarketOrder(a.action, a.quantity))]
    ELSE IF a.order_type = "LMT"
    THEN IF IsNone(a.limit_price)
         THEN [raised |-> "ValueError", order |-> None]
         ELSE [raised |-> "none",
               order |-> Some(LimitOrder(a.action, a.quantity, Val(a.limit_price)))]
    ELSE IF a.order_type = "STP"
    THEN IF IsNone(a.stop_price)
         THEN [raised |-> "ValueError", order |-> None]
         ELSE [raised |-> "none",
               order |-> Some(StopOrder(a.action, a.quantity, Val(a.stop_price)))]
    ELSE [raised |-> "ValueError", order |-> None]

\* place_order is called: Stock(symbol, 'SMART', 'USD') and the await of
\* qualifyContractsAsync
PlaceOrder ==
    /\ order.pc = "idle"
    /\ \E a \in OrderCalls :
          order' = [order EXCEPT !.pc = "qualifying", !.args = a]
    /\ UNCHANGED <<requestVars, pairVars, serviceVars, conn>>

\* qualifyContractsAsync answers; with a contract the order is created and
\* handed to ib.placeOrder, which gives it the next order id; every
\* exception is logged and re-raised
Qualified ==
    /\ order.pc = "qualifying"
    /\ \E q \in QualifyOutcomes :
          \E r \in {CreateOrder(order.args)} :
              order' =
                  IF q = "error"
                  THEN [order EXCEPT !.pc = "raised", !.qualify = q,
                                     !.raised = "Exception"]
                  ELSE IF q = "unknown"
                  THEN [order EXCEPT !.pc = "raised", !.qualify = q,
                                     !.raised = "ValueError"]
                  ELSE IF r.raised # "none"
                  THEN [order EXCEPT !.pc = "raised", !.qualify = q,
                                     !.raised = r.raised]
                  ELSE [order EXCEPT
                          !.pc = "sleeping", !.qualify = q,
                          !.placed = Append(@, [symbol |-> order.args.symbol,
                                                order |-> Val(r.order),
                                                orderId |-> order.next_id]),
                          !.next_id = @ + 1]
    /\ UNCHANGED <<requestVars, pairVars, serviceVars, conn>>

\* after asyncio.sleep(0.5): return trade.order.orderId
ReturnOrderId ==
    /\ order.pc = "sleeping"
    /\ order' = [order EXCEPT
                   !.pc = "returned",
                   !.returned = Some(order.placed[Len(order.placed)].orderId)]
    /\ UNCHANGED <<requestVars, pairVars, serviceVars, conn>>

\* a connected client whose broker session hands out order ids from any start
InitOrder ==
    /\ pc = "idle"
    /\ bars = <<>>
    /\ tech = Technicals(0)
    /\ price = None
    /\ gain = None
    /\ loss = None
    /\ band_width_sq = None
    /\ bullish_signals = None
    /\ bearish_signals = None
    /\ current_price = None
    /\ text = <<>>
    /\ first_call = None
    /\ interleaved = FALSE
    /\ response = NoResponse
    /\ calls = [c \in Invocations |-> NotCalled]
    /\ heap = <<>>
    /\ bridge = BridgeStarting(TRUE, PaperPort, TRUE)
    /\ agent = AgentIdle("ollama")
    /\ \E id \in FirstOrderIds : order = [NoOrder EXCEPT !.next_id = id]
    /\ conn = NoConn

NextOrder == PlaceOrder \/ Qualified \/ ReturnOrderId

SpecOrder == InitOrder /\ [][NextOrder]_vars

\* ------------------------------------------------------------------------
\* ib-bridge: IBClient's reconnection, task by task
\* ------------------------------------------------------------------------

\* the _reconnect tasks the event loop is let to hold at once
MaxTasks == 3

\* config.py's "Connection settings" at their defaults
DefaultReconnect ==
    [RECONNECT_ENABLED |-> TRUE, RECONNECT_MAX_ATTEMPTS |-> 5,
     RECONNECT_DELAY |-> 5]

\* the settings an operator may run with: the defaults, reconnection
\* switched off, fewer attempts with a longer delay
ReconnectSettings ==
    {DefaultReconnect,
     [DefaultReconnect EXCEPT !.RECONNECT_ENABLED = FALSE],
     [DefaultReconnect EXCEPT !.RECONNECT_MAX_ATTEMPTS = 3, !.RECONNECT_DELAY = 10]}

\* the service after lifespan's IBClient(...): not connected, no task
NewConn(settings) ==
    [pc |-> "serving",
     settings |-> settings,
     connected |-> FALSE,        \* self._connected
     ib_connected |-> FALSE,     \* self.ib.isConnected()
     reconnect_task |-> 0,       \* self._reconnect_task: 0 is None, else an index of tasks
     tasks |-> <<>>,             \* the _reconnect tasks still referenced, in creation order
     emitter |-> "none",         \* history: what emitted the last disconnectedEvent
     lost |-> FALSE]             \* history: an emission since the last successful connect

\* asyncio.create_task(self._reconnect()): retry_count = 0, nothing awaited yet
NewTask ==
    [state |-> "sleeping", retry_count |-> 0, slept |-> <<>>, attempts |-> 0,
     outcome |-> "none",
     overlapped |-> FALSE]       \* history: an event arrived while the task was not done

\* Task.done(): finished or cancelled; a task whose cancellation was only
\* requested is not done
Done(task) == task.state \in {"done", "cancelled"}

\* a reconnect task that has neither finished nor been cancelled
Running(task) == ~Done(task)

\* a task is started at every event
MayStartTaskAlways(c) == TRUE

\* if not self._reconnect_task or self._reconnect_task.done()
MayStartTask(c) ==
    c.reconnect_task = 0 \/ Done(c.tasks[c.reconnect_task])

\* IBClient._on_disconnected; a finished task is referenced by
\* _reconnect_task alone and is released when the next one replaces it
HandleDisconnected(c) ==
    LET cleared == [c EXCEPT !.connected = FALSE, !.lost = TRUE]
        kept    == SelectSeq(c.tasks, Running)
    IN  IF MayStartTask(c)
        THEN [cleared EXCEPT !.tasks = Append(kept, NewTask),
                             !.reconnect_task = Len(kept) + 1]
        ELSE [cleared EXCEPT !.tasks[c.reconnect_task].overlapped = TRUE]

\* a wait that doubles with every failure
BackoffDoubling(retry_count) == 5 * (2 ^ retry_count)

\* await asyncio.sleep(5 * (retry_count + 1))
Backoff(retry_count) == 5 * (retry_count + 1)

\* IBClient.connect on the client: _connected follows the outcome; a failed
\* connectAsync may emit disconnectedEvent on its way out
ConnectOutcome(c, ok, emits) ==
    LET h == IF ~ok /\ emits
             THEN [HandleDisconnected(c) EXCEPT !.emitter = "connectAsync"]
             ELSE c
    IN  [h EXCEPT !.connected = ok,
                  !.ib_connected = IF ok THEN TRUE ELSE (IF emits THEN FALSE ELSE @),
                  !.lost = IF ok THEN FALSE ELSE @]

\* is_connected() on the connection record
ConnIsConnected(c) == c.connected /\ c.ib_connected

\* lifespan's auto-connect or POST /connect while not connected
ConnectCall ==
    /\ conn.pc = "serving"
    /\ ~ConnIsConnected(conn)
    /\ \E ok \in BOOLEAN, emits \in BOOLEAN :
          /\ (~ok /\ emits) => Len(conn.tasks) < MaxTasks
          /\ (ok => ~emits)
          /\ conn' = ConnectOutcome(conn, ok, emits)
    /\ UNCHANGED <<requestVars, pairVars, serviceVars, order>>

\* the gateway drops the connection: ib_insync emits disconnectedEvent
GatewayDrops ==
    /\ conn.pc = "serving"
    /\ conn.ib_connected
    /\ Len(conn.tasks) < MaxTasks
    /\ conn' = [HandleDisconnected(conn) EXCEPT !.ib_connected = FALSE,
                                                !.emitter = "gateway"]
    /\ UNCHANGED <<requestVars, pairVars, serviceVars, order>>

\* _reconnect: the sleep before an attempt has elapsed
ReconnectSleep ==
    /\ conn.pc = "serving"
    /\ \E i \in 1..Len(conn.tasks) :
          /\ conn.tasks[i].state = "sleeping"
          /\ conn' = [conn EXCEPT
                        !.tasks[i].state = "connecting",
                        !.tasks[i].slept = Append(@, Backoff(conn.tasks[i].retry_count))]
    /\ UNCHANGED <<requestVars, pairVars, serviceVars, order>>

\* _reconnect: await self.connect() returns (the loop ends) or raises
\* (retry_count += 1, and the loop ends once max_retries is reached)
ReconnectConnect ==
    /\ conn.pc = "serving"
    /\ \E i \in 1..Len(conn.tasks), ok \in BOOLEAN, emits \in BOOLEAN :
          /\ conn.tasks[i].state = "connecting"
          /\ (~ok /\ emits) => Len(conn.tasks) < MaxTasks
          /\ (ok => ~emits)
          /\ \E failures \in {conn.tasks[i].retry_count + 1} :
                conn' = [ConnectOutcome(conn, ok, emits) EXCEPT
                           !.tasks[i].attempts = @ + 1,
                           !.tasks[i].retry_count = IF ok THEN @ ELSE failures,
                           !.tasks[i].state =
                               IF ok \/ failures >= MaxRetries THEN "done" ELSE "sleeping",
                           !.tasks[i].outcome =
                               IF ok THEN "reconnected"
                               ELSE IF failures >= MaxRetries THEN "gave_up" ELSE @]
    /\ UNCHANGED <<requestVars, pairVars, serviceVars, order>>

\* POST /disconnect while connected: IBClient.disconnect requests the
\* cancellation of the task, ib.disconnect() emits disconnectedEvent or
\* not, _connected is cleared
Disconnect ==
    /\ conn.pc = "serving"
    /\ ConnIsConnected(conn)
    /\ \E emits \in BOOLEAN :
          /\ emits => Len(conn.tasks) < MaxTasks
          /\ LET asked == IF conn.reconnect_task # 0
                             /\ ~Done(conn.tasks[conn.reconnect_task])
                          THEN [conn EXCEPT !.tasks[conn.reconnect_task].state = "cancelling"]
                          ELSE conn
                 h == IF emits
                      THEN [HandleDisconnected(asked) EXCEPT !.emitter = "disconnect"]
                      ELSE asked
             IN  conn' = [h EXCEPT !.connected = FALSE, !.ib_connected = FALSE]
    /\ UNCHANGED <<requestVars, pairVars, serviceVars, order>>

\* the cancelled task is scheduled: CancelledError ends _reconnect
TaskCancelled ==
    /\ conn.pc = "serving"
    /\ \E i \in 1..Len(conn.tasks) :
          /\ conn.tasks[i].state = "cancelling"
          /\ conn' = [conn EXCEPT !.tasks[i].state = "cancelled",
                                  !.tasks[i].outcome = "cancelled"]
    /\ UNCHANGED <<requestVars, pairVars, serviceVars, order>>

\* the service starts under any connection settings
InitReconnect ==
    /\ pc = "idle"
    /\ bars = <<>>
    /\ tech = Technicals(0)
    /\ price = None
    /\ gain = None
    /\ loss = None
    /\ band_width_sq = None
    /\ bullish_signals = None
    /\ bearish_signals = None
    /\ current_price = None
    /\ text = <<>>
    /\ first_call = None
    /\ interleaved = FALSE
    /\ response = NoResponse
    /\ calls = [c \in Invocations |-> NotCalled]
    /\ heap = <<>>
    /\ bridge = BridgeStarting(TRUE, PaperPort, TRUE)
    /\ agent = AgentIdle("ollama")
    /\ order = NoOrder
    /\ \E settings \in ReconnectSettings : conn = NewConn(settings)

NextReconnect ==
    \/ ConnectCall
    \/ GatewayDrops
    \/ ReconnectSleep
    \/ ReconnectConnect
    \/ Disconnect
    \/ TaskCancelled

SpecReconnect == InitReconnect /\ [][NextReconnect]_vars

\* the event loop runs every task that is ready: a sleep elapses, a
\* connection attempt ends, a requested cancellation is delivered
SpecReconnectLive ==
    /\ SpecReconnect
    /\ WF_vars(ReconnectSleep)
    /\ WF_vars(ReconnectConnect)
    /\ WF_vars(TaskCancelled)

\* ------------------------------------------------------------------------
\* Claims
\* ------------------------------------------------------------------------

\* compute_technicals has returned for the series in bars
Computed == pc \in {"computed", "formatted"}

LastClose == bars[Len(bars)].close

\* every snapshot field other than bars_used is null
AllNull(t) ==
    /\ IsNone(t.rsi_14) /\ IsNone(t.macd) /\ IsNone(t.macd_signal)
    /\ IsNone(t.macd_hist) /\ IsNone(t.sma_20) /\ IsNone(t.sma_50)
    /\ IsNone(t.bb_upper) /\ IsNone(t.bb_lower) /\ IsNone(t.bb_pct)
    /\ IsNone(t.volume_ratio) /\ t.trend = "None"

\* the positions of the 14-entry RSI window that hold a real bar-to-bar move
RsiWindow == Max(2, Len(bars) - 13)..Len(bars)

\* the 14-period mean loss, resp. gain, of the series is zero
MeanLossZero == \A i \in RsiWindow : bars[i].close >= bars[i - 1].close

MeanGainZero == \A i \in RsiWindow : bars[i].close <= bars[i - 1].close

\* the trailing-20 mean volume is positive
MeanVolumeOk == \E i \in (Len(bars) - 19)..Len(bars) : bars[i].volume > 0

\* the trailing 20 closes are all equal (zero volatility: upper = lower)
FlatWindow == \A i \in (Len(bars) - 19)..Len(bars) : bars[i].close = LastClose

\* C1: a series of fewer than 14 bars yields bars_used = n and every other
\* field null.
C1_InsufficientData ==
    (Computed /\ Len(bars) < 14) => (tech.bars_used = Len(bars) /\ AllNull(tech))

C1_Witness == pc = "computed" /\ Len(bars) = 13 /\ tech.bars_used = 13

\* C2: on non-degenerate input (non-zero mean loss, positive trailing mean
\* volume) each field is present iff its history threshold is met: rsi_14 at
\* 14, the MACD fields at 26, sma_20, the bands and volume_ratio at 20,
\* sma_50 at 50.
C2_Thresholds ==
    (Computed /\ (Len(bars) >= 14 => ~MeanLossZero)
              /\ (Len(bars) >= 20 => MeanVolumeOk)) =>
        /\ ~IsNone(tech.rsi_14) <=> Len(bars) >= 14
        /\ ~IsNone(tech.macd) <=> Len(bars) >= 26
        /\ ~IsNone(tech.macd_signal) <=> Len(bars) >= 26
        /\ ~IsNone(tech.macd_hist) <=> Len(bars) >= 26
        /\ ~IsNone(tech.sma_20) <=> Len(bars) >= 20
        /\ ~IsNone(tech.bb_upper) <=> Len(bars) >= 20
        /\ ~IsNone(tech.bb_lower) <=> Len(bars) >= 20
        /\ ~IsNone(tech.volume_ratio) <=> Len(bars) >= 20
        /\ ~IsNone(tech.sma_50) <=> Len(bars) >= 50

C2_Witness ==
    /\ pc = "computed" /\ Len(bars) = 50 /\ ~MeanLossZero /\ MeanVolumeOk
    /\ ~IsNone(tech.sma_50) /\ ~IsNone(tech.rsi_14)

\* C3: with B bullish and S bearish votes, the trend is bullish exactly when
\* B > S + 1, bearish exactly when S > B + 1, neutral in every other case.
C3_MarginOfTwo ==
    (Computed /\ ~IsNone(bullish_signals)) =>
        /\ tech.trend = "bullish" <=> Val(bullish_signals) > Val(bearish_signals) + 1
        /\ tech.trend = "bearish" <=> Val(bearish_signals) > Val(bullish_signals) + 1
        /\ tech.trend = "neutral" <=>
              /\ Val(bullish_signals) <= Val(bearish_signals) + 1
              /\ Val(bearish_signals) <= Val(bullish_signals) + 1

C3_Witness ==
    /\ pc = "computed" /\ ~IsNone(bullish_signals)
    /\ Val(bullish_signals) = Val(bearish_signals) + 1
    /\ tech.trend = "neutral"

\* C4: each vote is cast only for a non-null indicator, on the published
\* field and the last close: RSI bullish above 55, bearish below 45, none in
\* between; MACD histogram bullish above 0, bearish otherwise; each SMA
\* bullish when the last close is above it, bearish otherwise; so B + S <= 4.
C4_Votes ==
    (Computed /\ ~IsNone(bullish_signals)) =>
        /\ Val(bullish_signals) =
              Count(~IsNone(tech.rsi_14) /\ Val(tech.rsi_14) > 5500)
            + Count(~IsNone(tech.macd_hist) /\ Val(tech.macd_hist) > 0)
            + Count(~IsNone(tech.sma_20) /\ LastClose > Val(tech.sma_20))
            + Count(~IsNone(tech.sma_50) /\ LastClose > Val(tech.sma_50))
        /\ Val(bearish_signals) =
              Count(~IsNone(tech.rsi_14) /\ Val(tech.rsi_14) < 4500)
            + Count(~IsNone(tech.macd_hist) /\ Val(tech.macd_hist) <= 0)
            + Count(~IsNone(tech.sma_20) /\ LastClose <= Val(tech.sma_20))
            + Count(~IsNone(tech.sma_50) /\ LastClose <= Val(tech.sma_50))
        /\ Val(bullish_signals) + Val(bearish_signals) <= 4

C4_Witness ==
    /\ pc = "computed" /\ ~IsNone(tech.rsi_14) /\ ~IsNone(tech.sma_50)
    /\ Val(tech.rsi_14) >= 4500 /\ Val(tech.rsi_14) <= 5500
    /\ ~IsNone(tech.macd_hist) /\ ~IsNone(tech.sma_20)
    /\ Val(bullish_signals) + Val(bearish_signals) = 3

\* C5: for n >= 14 the trend is one of bullish, bearish, neutral, never
\* absent; with no vote cast it is neutral.
C5_TrendAlwaysSet ==
    (Computed /\ Len(bars) >= 14) =>
        /\ tech.trend \in {"bullish", "bearish", "neutral"}
        /\ (Val(bullish_signals) = 0 /\ Val(bearish_signals) = 0)
              => tech.trend = "neutral"

C5_Witness ==
    /\ pc = "computed" /\ Len(bars) >= 14
    /\ bullish_signals = Some(0) /\ bearish_signals = Some(0)
    /\ tech.trend = "neutral"

\* 30 bars with close = 100.00 and volume = 1000 throughout
Flat30 ==
    /\ Len(bars) = 30
    /\ \A i \in 1..30 : bars[i].close = 10000 /\ bars[i].volume = 1000

\* C6: for 30 bars of close 100.0 and volume 1000: sma_20 = 100.00, both
\* bands 100.00, bb_pct null, the three MACD fields 0, rsi_14 null,
\* volume_ratio 1.00, sma_50 null, votes B = 0 and S = 2, trend bearish.
C6_ZeroVolatility ==
    (Computed /\ Flat30) =>
        /\ tech.sma_20 = Some(10000)
        /\ tech.bb_upper = Some(10000) /\ tech.bb_lower = Some(10000)
        /\ IsNone(tech.bb_pct)
        /\ tech.macd = Some(0) /\ tech.macd_signal = Some(0)
        /\ tech.macd_hist = Some(0)
        /\ IsNone(tech.rsi_14)
        /\ tech.volume_ratio = Some(100)
        /\ IsNone(tech.sma_50)
        /\ bullish_signals = Some(0) /\ bearish_signals = Some(2)
        /\ tech.trend = "bearish"

C6_Witness == pc = "computed" /\ Flat30 /\ tech.bars_used = 30

\* C7: for n >= 20, bb_pct is non-null only if the band width is strictly
\* positive; on a zero-volatility window it is null while both bands are
\* populated, and it never holds the nan/inf of a division by zero.
C7_BandWidthGuard ==
    (Computed /\ Len(bars) >= 20) =>
        /\ ~IsNone(tech.bb_pct) =>
              /\ ~FlatWindow
              /\ Val(band_width_sq)[1] > 0
              /\ Len(tech.bb_pct) = 1
        /\ FlatWindow =>
              /\ Val(band_width_sq)[1] = 0
              /\ IsNone(tech.bb_pct)
              /\ ~IsNone(tech.bb_upper) /\ ~IsNone(tech.bb_lower)

C7_Witness ==
    /\ pc = "computed" /\ Len(bars) >= 26 /\ FlatWindow
    /\ IsNone(tech.bb_pct) /\ ~IsNone(tech.bb_upper)
    /\ tech.bb_upper = tech.bb_lower

\* C8: for n >= 14 with a zero 14-period mean loss, rsi_14 is null (not 100,
\* not nan/inf) and the RSI casts no vote.
C8_ZeroLossRsiNull ==
    (Computed /\ Len(bars) >= 14 /\ MeanLossZero) =>
        /\ IsNone(tech.rsi_14)
        /\ Val(bullish_signals) =
              Count(~IsNone(tech.macd_hist) /\ Val(tech.macd_hist) > 0)
            + Count(~IsNone(tech.sma_20) /\ LastClose > Val(tech.sma_20))
            + Count(~IsNone(tech.sma_50) /\ LastClose > Val(tech.sma_50))
        /\ Val(bearish_signals) =
              Count(~IsNone(tech.macd_hist) /\ Val(tech.macd_hist) <= 0)
            + Count(~IsNone(tech.sma_20) /\ LastClose <= Val(tech.sma_20))
            + Count(~IsNone(tech.sma_50) /\ LastClose <= Val(tech.sma_50))

C8_Witness ==
    /\ pc = "computed" /\ Len(bars) >= 26 /\ MeanLossZero /\ ~MeanGainZero
    /\ IsNone(tech.rsi_14)

\* C9: a non-null rsi_14 lies in 0..100, and it is 0 when the 14-period mean
\* gain is zero and the mean loss positive.
C9_RsiRange ==
    Computed =>
        /\ ~IsNone(tech.rsi_14) =>
              (Val(tech.rsi_14) >= 0 /\ Val(tech.rsi_14) <= 10000)
        /\ (Len(bars) >= 14 /\ MeanGainZero /\ ~MeanLossZero) =>
              tech.rsi_14 = Some(0)

C9_Witness ==
    /\ pc = "computed" /\ Len(bars) >= 14 /\ MeanGainZero /\ ~MeanLossZero
    /\ tech.rsi_14 = Some(0)

Returned(c) == calls[c].pc \in {"computed", "formatted"}

\* the snapshot invocation c holds
Snapshot(c) == heap[calls[c].ref]

\* two series of one length with the same close and volume on every bar
SameCloseVolume(a, b) ==
    /\ Len(a) = Len(b)
    /\ \A i \in 1..Len(a) : a[i].close = b[i].close /\ a[i].volume = b[i].volume

\* C11: two bar series of the same length that agree on every bar's close
\* and volume, whatever their time, open, high and low, produce identical
\* snapshots.
C11_CloseVolumeOnly ==
    (Returned(1) /\ Returned(2)
       /\ SameCloseVolume(calls[1].given, calls[2].given))
    => Snapshot(1) = Snapshot(2)

C11_Witness ==
    /\ Returned(1) /\ Returned(2)
    /\ SameCloseVolume(calls[1].given, calls[2].given)
    /\ Len(calls[1].given) >= 50
    /\ \E i \in 1..Len(calls[1].given) :
          /\ calls[1].given[i].high # calls[2].given[i].high
          /\ calls[1].given[i].open # calls[2].given[i].open
          /\ calls[1].given[i].low # calls[2].given[i].low
          /\ calls[1].given[i].time # calls[2].given[i].time
    /\ ~IsNone(Snapshot(1).bb_pct)

\* the last w bars of s
LastBars(s, w) == SubSeq(s, Len(s) - w + 1, Len(s))

\* both series on the same side of the 26- and 50-bar thresholds
SameSide(a, b) ==
    /\ (Len(a) >= 26) <=> (Len(b) >= 26)
    /\ (Len(a) >= 50) <=> (Len(b) >= 50)

\* C12: two series of length >= 20 on the same side of the 26- and 50-bar
\* thresholds whose last 20 bars are identical have the same sma_20,
\* bb_upper, bb_lower, bb_pct and volume_ratio; two series of length >= 50
\* whose last 50 closes are identical have the same sma_50.
C12_TrailingWindow ==
    (Returned(1) /\ Returned(2)) =>
        /\ ( /\ Len(calls[1].given) >= 20 /\ Len(calls[2].given) >= 20
             /\ SameSide(calls[1].given, calls[2].given)
             /\ LastBars(calls[1].given, 20) = LastBars(calls[2].given, 20) )
           => /\ Snapshot(1).sma_20 = Snapshot(2).sma_20
              /\ Snapshot(1).bb_upper = Snapshot(2).bb_upper
              /\ Snapshot(1).bb_lower = Snapshot(2).bb_lower
              /\ Snapshot(1).bb_pct = Snapshot(2).bb_pct
              /\ Snapshot(1).volume_ratio = Snapshot(2).volume_ratio
        /\ ( /\ Len(calls[1].given) >= 50 /\ Len(calls[2].given) >= 50
             /\ Closes(LastBars(calls[1].given, 50))
                  = Closes(LastBars(calls[2].given, 50)) )
           => Snapshot(1).sma_50 = Snapshot(2).sma_50

C12_Witness ==
    /\ Returned(1) /\ Returned(2)
    /\ Len(calls[1].given) >= 50 /\ Len(calls[2].given) >= 50
    /\ LastBars(calls[1].given, 20) = LastBars(calls[2].given, 20)
    /\ Closes(LastBars(calls[1].given, 50)) = Closes(LastBars(calls[2].given, 50))
    /\ Closes(calls[1].given) # Closes(calls[2].given)
    /\ ~IsNone(Snapshot(1).bb_pct) /\ ~IsNone(Snapshot(1).sma_50)

\* C13: interleaved invocations do not interfere: each returns the snapshot
\* and the text it returns when run alone, its input series is as it was
\* passed, and the snapshot it returned stays as it was returned.
C13_NoInterference ==
    \A c \in Invocations :
        Returned(c) =>
            /\ Snapshot(c) = Val(calls[c].alone)
            /\ calls[c].bars = calls[c].given
            /\ calls[c].pc = "formatted" =>
                  calls[c].text =
                      format_technicals(Val(calls[c].alone), calls[c].current_price)

C13_Witness ==
    /\ calls[1].pc = "formatted" /\ calls[2].pc = "formatted"
    /\ \E c \in Invocations : calls[c].overlapped
    /\ calls[1].given # calls[2].given
    /\ Snapshot(1) # Snapshot(2)
    /\ Len(calls[1].given) >= 20 /\ Len(calls[2].given) >= 20

\* C14: a snapshot with bars_used = 0 renders as exactly the no-data
\* sentinel line, whatever its other fields and the current price are.
C14_NoDataSentinel ==
    (pc = "formatted" /\ tech.bars_used = 0) => text = <<NoDataLine>>

C14_Witness ==
    /\ pc = "formatted" /\ tech.bars_used = 0
    /\ ~IsNone(tech.rsi_14) /\ ~IsNone(tech.sma_20) /\ tech.trend = "bullish"
    /\ ~IsNone(current_price)
    /\ text = <<NoDataLine>>

\* the header line for n bars
HeaderLine(n) == <<"Based on daily bars", n>>

\* the indicator lines in their fixed order, by the label that starts them
LineOrder ==
    <<"RSI(14)", "MACD(12,26,9)", "SMA-20", "SMA-50", "Bollinger Bands",
      "Volume ratio (vs 20d avg)", "Overall trend signal">>

\* the indicator that label stands for is non-null in snapshot t
Present(t, label) ==
    CASE label = "RSI(14)"                   -> ~IsNone(t.rsi_14)
      [] label = "MACD(12,26,9)"             -> ~IsNone(t.macd)
      [] label = "SMA-20"                    -> ~IsNone(t.sma_20)
      [] label = "SMA-50"                    -> ~IsNone(t.sma_50)
      [] label = "Bollinger Bands"           -> ~IsNone(t.bb_upper)
      [] label = "Volume ratio (vs 20d avg)" -> ~IsNone(t.volume_ratio)
      [] label = "Overall trend signal"      -> t.trend # "None"

\* the labels of the lines after the first one
LabelsAfterHeader(lines) == [i \in 1..(Len(lines) - 1) |-> lines[i + 1][1]]

\* the line of the text that starts with label
LineOf(lines, label) == lines[CHOOSE i \in 1..Len(lines) : lines[i][1] = label]

\* C15: for bars_used > 0 the text is the header line followed by exactly
\* one line per non-null indicator, in the order RSI, MACD, SMA-20, SMA-50,
\* Bollinger Bands, volume ratio, trend; with every indicator null it is the
\* header alone; the Bollinger line reads Position=N/A when bb_pct is null.
C15_LinesInOrder ==
    (pc = "formatted" /\ tech.bars_used > 0) =>
        /\ text[1] = HeaderLine(tech.bars_used)
        /\ LabelsAfterHeader(text)
             = SelectSeq(LineOrder, LAMBDA label : Present(tech, label))
        /\ AllNull(tech) => text = <<HeaderLine(tech.bars_used)>>
        /\ ~IsNone(tech.bb_upper) =>
              (LineOf(text, "Bollinger Bands")[4] = "N/A" <=> IsNone(tech.bb_pct))

C15_Witness ==
    /\ pc = "formatted" /\ tech.bars_used > 0
    /\ ~IsNone(tech.rsi_14) /\ IsNone(tech.macd) /\ ~IsNone(tech.macd_hist)
    /\ IsNone(tech.sma_20) /\ ~IsNone(tech.sma_50)
    /\ ~IsNone(tech.bb_upper) /\ IsNone(tech.bb_pct)
    /\ Len(text) = 4
    /\ LineOf(text, "Bollinger Bands")[4] = "N/A"

\* the position label of the line of the SMA that label names
PositionLabel(lines, label) == LineOf(lines, label)[3]

\* the claim C16 makes of one SMA line
LabelledByPrice(sma, label) ==
    ~IsNone(sma) =>
        /\ ~IsNone(current_price) =>
              (PositionLabel(text, label) = "above" <=> Val(current_price) > Val(sma))
        /\ IsNone(current_price) =>
              (PositionLabel(text, label) = "above" <=> 0 > Val(sma))
        /\ PositionLabel(text, label) \in {"above", "below"}
        /\ (IsNone(current_price) /\ Val(sma) > 0) =>
              PositionLabel(text, label) = "below"

\* C16: each non-null SMA is labelled 'above' exactly when the current price
\* is strictly greater than it and 'below' otherwise; without a current
\* price the price counts as 0, so every positive SMA is labelled 'below'.
C16_PricePosition ==
    (pc = "formatted" /\ tech.bars_used > 0) =>
        /\ LabelledByPrice(tech.sma_20, "SMA-20")
        /\ LabelledByPrice(tech.sma_50, "SMA-50")

C16_Witness ==
    /\ pc = "formatted" /\ tech.bars_used > 0
    /\ ~IsNone(tech.sma_20) /\ current_price = tech.sma_20
    /\ Val(tech.sma_20) > 0
    /\ PositionLabel(text, "SMA-20") = "below"

\* C17: while PAPER_TRADING is true no connection to the live port 7496 is
\* attempted, and while it is false none to the paper port 7497, after any
\* sequence of startup, POST /connect, disconnects and reconnects.
C17_PortMatchesMode ==
    /\ bridge.PAPER_TRADING => LivePort \notin bridge.attempted
    /\ ~bridge.PAPER_TRADING => PaperPort \notin bridge.attempted

\* C18: a REST request made while the client is not connected is answered
\* with status 503 and the client's operation is not invoked.
C18_NotConnected503 ==
    ( /\ ~IsNone(bridge.response)
      /\ Val(bridge.response).endpoint \in RestEndpoints
      /\ ~Val(bridge.response).was_connected )
    => /\ Val(bridge.response).status = 503
       /\ ~Val(bridge.response).invoked

\* C19: with the Ollama provider configured and not running (the LLM call
\* fails with a connection error), POST /suggest and POST /v1/plan respond
\* with status 503.
C19_OllamaDown503 ==
    ( /\ agent.pc = "responded"
      /\ agent.llm_provider = "ollama"
      /\ agent.llm = "ConnectError" )
    => agent.status = 503

MustRefuse(o) ==
    \/ o.qualify # "qualified"
    \/ o.args.order_type = "LMT" /\ IsNone(o.args.limit_price)
    \/ o.args.order_type = "STP" /\ IsNone(o.args.stop_price)
    \/ o.args.order_type \notin {"MKT", "LMT", "STP"}

\* C21: place_order calls ib.placeOrder never and raises when the type is
\* LMT without limit_price, STP without stop_price, a type other than
\* MKT/LMT/STP, or the contract cannot be qualified; in every other case
\* it submits exactly one order and returns that order's id.
C21_PlaceOrder ==
    order.pc \in {"raised", "sleeping", "returned"} =>
        IF MustRefuse(order)
        THEN /\ order.pc = "raised"
             /\ order.raised # "none"
             /\ order.placed = <<>>
             /\ order.returned = None
        ELSE /\ order.pc # "raised"
             /\ order.raised = "none"
             /\ Len(order.placed) = 1
             /\ order.placed[1].order.orderType = order.args.order_type
             /\ order.pc = "returned" =>
                    order.returned = Some(order.placed[1].orderId)

C21_Witness ==
    /\ order.pc = "returned"
    /\ order.args.order_type = "LMT"
    /\ order.args.limit_price = Some(0)
    /\ Len(order.placed) = 1
    /\ order.returned = Some(7)

\* closes.diff() without its NaN head: the n - 1 bar-to-bar moves of n closes
RealDeltas(closes) ==
    [i \in 1..(Len(closes) - 1) |-> closes[i + 1] - closes[i]]

\* rsi_14 from the 14 most recent entries of a series of moves
RsiOfLast14(d) ==
    Value({ IF NotNa(rsi) THEN Some(RoundQ(rsi, 100)) ELSE None
          : rsi \in {RsiOfRs(FloatDiv(
                        RollingSum([i \in 1..Len(d) |-> IF d[i] > 0 THEN d[i] ELSE 0], 14),
                        ReplaceZero(RollingSum([i \in 1..Len(d) |->
                                                   IF d[i] < 0 THEN -d[i] ELSE 0], 14))))} })

\* C22: a non-null rsi_14 rests on 14 real bar-to-bar close deltas, the 14
\* most recent ones; no rolling-mean position backed by fewer real deltas
\* (a placeholder standing for the missing delta of the first bar) is used.
C22_RealDeltasOnly ==
    (Computed /\ ~IsNone(tech.rsi_14)) =>
        /\ Len(RealDeltas(Closes(bars))) >= 14
        /\ tech.rsi_14 = RsiOfLast14(RealDeltas(Closes(bars)))

\* C23: with 14 to 19 bars the trend is neutral whatever the prices, since
\* only the RSI can vote and one vote is short of the margin of two; a
\* bullish or bearish trend occurs only with 20 bars or more.
C23_NeutralBelowTwenty ==
    Computed =>
        /\ (Len(bars) >= 14 /\ Len(bars) <= 19) =>
              /\ tech.trend = "neutral"
              /\ Val(bullish_signals) + Val(bearish_signals) <= 1
              /\ IsNone(tech.macd_hist) /\ IsNone(tech.sma_20) /\ IsNone(tech.sma_50)
        /\ tech.trend \in {"bullish", "bearish"} => Len(bars) >= 20

C23_Witness ==
    /\ pc = "computed"
    /\ Len(bars) = 19
    /\ Val(bullish_signals) = 1
    /\ ~IsNone(tech.rsi_14) /\ Val(tech.rsi_14) > 5500
    /\ tech.trend = "neutral"

\* the LLM's reply text is not valid JSON, or the provider's answer is not
LlmNotJson == agent.llm \in {"not_json", "body_not_json"}

\* the LLM call fails with an exception of another kind
LlmCallFails ==
    agent.llm \in {"ConnectError", "HTTPStatusError", "no_api_key"}

\* C24: when the LLM reply is not valid JSON, get_suggestion returns, not
\* raises, action WATCH with confidence 30 and signal strength weak; when
\* the LLM call fails with any other exception it returns action HOLD with
\* confidence 10 and signal strength weak; both times risk_level is high
\* and no entry, target or stop-loss price is set.
C24_Fallbacks ==
    agent.pc \in {"returned", "responded"} =>
        /\ LlmNotJson =>
              /\ agent.raised = "none"
              /\ agent.suggestion.action = "WATCH"
              /\ agent.suggestion.confidence = 3000
        /\ LlmCallFails =>
              /\ agent.raised = "none"
              /\ agent.suggestion.action = "HOLD"
              /\ agent.suggestion.confidence = 1000
        /\ (LlmNotJson \/ LlmCallFails) =>
              /\ agent.suggestion.signal_strength = "weak"
              /\ agent.suggestion.risk_level = "high"
              /\ IsNone(agent.suggestion.entry_price)
              /\ IsNone(agent.suggestion.target_price)
              /\ IsNone(agent.suggestion.stop_loss)

\* C25: for any JSON value the LLM returns, get_suggestion returns a
\* SuggestionResponse with action among BUY/SELL/HOLD/WATCH and confidence
\* in 0..100; missing or invalid members fall back to WATCH, moderate,
\* swing and 50, a numeric confidence <= 1 is scaled by 100, nothing is
\* raised.
C25_AnyJsonValue ==
    ( /\ agent.pc \in {"returned", "responded"}
      /\ agent.llm \in {"json_object", "json_other"} )
    => /\ agent.raised = "none"
       /\ agent.suggestion.action \in Actions
       /\ agent.suggestion.confidence >= 0
       /\ agent.suggestion.confidence <= 10000
       /\ agent.llm = "json_object" =>
             /\ ~(agent.data.action.t = "text" /\ agent.data.action.s \in Actions)
                    => agent.suggestion.action = "WATCH"
             /\ ~(agent.data.signal_strength.t = "text"
                    /\ agent.data.signal_strength.s \in SignalStrengths)
                    => agent.suggestion.signal_strength = "moderate"
             /\ ~(agent.data.time_horizon.t = "text"
                    /\ agent.data.time_horizon.s \in TimeHorizons)
                    => agent.suggestion.time_horizon = "swing"
             /\ agent.data.confidence.t # "number"
                    => agent.suggestion.confidence = 5000
             /\ (agent.data.confidence.t = "number" /\ agent.data.confidence.n <= 100)
                    => agent.suggestion.confidence = 100 * agent.data.confidence.n

\* what _reconnect has done so far keeps to its schedule
OnSchedule(task) ==
    /\ task.attempts <= 5
    /\ task.retry_count <= 5
    /\ \A k \in 1..Len(task.slept) : task.slept[k] = 5 * k
    /\ task.attempts <= Len(task.slept)
    /\ Len(task.slept) <= task.attempts + 1
    /\ task.state = "connecting" => Len(task.slept) = task.retry_count + 1
    /\ task.state = "done" =>
          \/ task.outcome = "reconnected" /\ task.attempts = task.retry_count + 1
          \/ task.outcome = "gave_up" /\ task.retry_count = 5 /\ task.attempts = 5
    /\ task.outcome = "reconnected" => task.state = "done"

C27_SettingsObeyed ==
    conn.pc = "serving" =>
        /\ ~conn.settings.RECONNECT_ENABLED => conn.tasks = <<>>
        /\ \A i \in 1..Len(conn.tasks) :
              /\ conn.tasks[i].attempts <= conn.settings.RECONNECT_MAX_ATTEMPTS
              /\ conn.tasks[i].outcome = "gave_up" =>
                    conn.tasks[i].attempts = conn.settings.RECONNECT_MAX_ATTEMPTS
              /\ \A k \in 1..Len(conn.tasks[i].slept) :
                    conn.tasks[i].slept[k] = conn.settings.RECONNECT_DELAY * k

\* C28: at most one reconnect task runs at any time, whatever the sequence
\* of disconnection events: _on_disconnected starts one only when none
\* exists or the previous one is done; and every event clears _connected,
\* so that is_connected() is false until a connect succeeds.
C28_SingleReconnectTask ==
    conn.pc = "serving" =>
        /\ Cardinality({i \in 1..Len(conn.tasks) : Running(conn.tasks[i])}) <= 1
        /\ \A i \in 1..Len(conn.tasks) :
              Running(conn.tasks[i]) => conn.reconnect_task = i
        /\ conn.lost => ~ConnIsConnected(conn)

C28_Witness ==
    /\ conn.pc = "serving"
    /\ Len(conn.tasks) = 1
    /\ conn.tasks[1].state = "sleeping"
    /\ conn.tasks[1].overlapped
    /\ conn.emitter = "gateway"
    /\ conn.lost /\ ~conn.connected

====
